---- MODULE Spec2Model ----
(***************************************************************************)
(* Payroll engine of SDEV268PayrollApplication: the time entry ledger,     *)
(* the pay period registry, the payroll detail ledger and the payroll      *)
(* controller that orchestrates them over one SQLite store.                *)
(*                                                                         *)
(* Encoding                                                                *)
(*   dates     day numbers; day 1 is a Monday, so the ISO strings of the   *)
(*             source (compared as text by SQL) order as these integers    *)
(*   ids       positive integers; 0 stands for NULL / None (both are       *)
(*             falsy in the `if x.payroll_id:` tests of the controller)    *)
(*   hours     hundredths of an hour                                       *)
(*   rates     cents per hour; salaries in cents per year                  *)
(*   money     cents (every pay amount is a 2-decimal value)               *)
(*   taxes     hundredths of a cent (4 decimals)                           *)
(*   floats    the decimal value a double stands for; where a double is    *)
(*             rounded to cents its binary error is computed as well       *)
(***************************************************************************)
EXTENDS Integers, Sequences, FiniteSets, TLC

VARIABLES employees, payroll_periods, payroll_details, time_entries, clock, last,
          calls

vars ==
  <<employees, payroll_periods, payroll_details, time_entries, clock, last, calls>>

----------------------------------------------------------------------------
(* Bounds of the model *)

MaxClock == 2
MaxTimeEntryId == 2

----------------------------------------------------------------------------
(* src/src/utils/constants.py *)

WEEKS_PER_YEAR == 52
STANDARD_WORK_HOURS_PER_WEEK == 4000
MAX_HOURS_PER_DAY == 2400
OVERTIME_THRESHOLD_DAILY == 800
MAX_PTO_HOURS_PER_DAY == 800
SALARIED_AUTO_HOURS_PER_DAY == 800
MEDICAL_DEDUCTION_SINGLE == 5000
MEDICAL_DEDUCTION_FAMILY == 10000
DEPENDENT_STIPEND_PER_DEPENDENT == 4500
STATE_TAX_RATE_IN == 315
FEDERAL_TAX_RATE_EMPLOYEE == 765
SOCIAL_SECURITY_RATE_EMPLOYEE == 620
MEDICARE_RATE_EMPLOYEE == 145
FEDERAL_TAX_RATE_EMPLOYER == 765
SOCIAL_SECURITY_RATE_EMPLOYER == 620
MEDICARE_RATE_EMPLOYER == 145

EMPLOYEE_STATUS_ACTIVE == "Active"
EMPLOYEE_STATUS_TERMINATED == "Terminated"
SALARY_TYPE_SALARY == "Salary"
SALARY_TYPE_HOURLY == "Hourly"
MEDICAL_TYPE_FAMILY == "Family"
DAYS_OF_WEEK ==
  <<"Monday", "Tuesday", "Wednesday", "Thursday", "Friday", "Saturday", "Sunday">>
(* every day of the week a work day *)
SALARIED_WORK_DAYS_AllWeek == {DAYS_OF_WEEK[i] : i \in DOMAIN DAYS_OF_WEEK}

SALARIED_WORK_DAYS == {"Monday", "Tuesday", "Wednesday", "Thursday", "Friday"}

----------------------------------------------------------------------------
(* Employee and compensation data the engine reads (vw_employee_full),     *)
(* as loaded into the store before the first operation.                    *)
(* E1 is paid by the hour, E2 is salaried; "E9" is an id of no employee.   *)

InitialEmployees ==
  [e \in {"E1", "E2"} |->
     IF e = "E1"
     THEN [status |-> "Active", salary_type |-> "Hourly", base_salary |-> 0,
           hourly_rate |-> 2000, num_dependents |-> 1, medical_type |-> "Single"]
     ELSE [status |-> "Active", salary_type |-> "Salary", base_salary |-> 7800000,
           hourly_rate |-> 0, num_dependents |-> 0, medical_type |-> "Family"]]

EmployeeIds == {"E1", "E2", "E9"}

(* Inputs of the operations: (employee, date) pairs, (hours worked, PTO    *)
(* hours, notes) triples, (start, end) ranges, approvers, period ids       *)
Targets == {<<"E1", 1>>, <<"E2", 1>>}
SubmitArgs == {<<400, 0, "n1">>, <<1000, 200, "n2">>, <<2000, 800, "n1">>}
RejectedArgs ==
  {<<0 - 100, 0, "n1">>, <<400, 0 - 100, "n1">>, <<400, 900, "n1">>,
   <<2500, 0, "n1">>, <<2000, 800, "n1">>}
Ranges == {<<1, 7>>}
FillRanges == {<<1, 1>>}
Approvers == {"admin1", "admin2"}
PeriodIds == {1, 2}
StatusTargets == {"E1"}

(* Inputs of the ledger-only and registry-only specifications *)
LedgerTargets == {<<"E1", 1>>, <<"E1", 8>>, <<"E2", 1>>}
LedgerArgs == {<<400, 0, "n1">>, <<1000, 200, "n2">>}
LedgerFillRanges == {<<1, 1>>, <<6, 8>>, <<5, 6>>}
AssignRanges == {<<1, 7>>, <<1, 14>>}
RegistryRanges == {<<1, 7>>, <<8, 14>>, <<3, 5>>}
RegistryIds == {1, 2, 3, 4}
(* the terms and the week of entries the calculator is run on: per day of  *)
(* the week <<>> for no entry or <<hours worked, PTO hours>>               *)
HourlyRates == {2000, 1001}
SalaryTerms == {<<7800000, "Single">>, <<7800000, "Family">>, <<2704000, "Single">>}
DayChoices ==
  << {<<>>, <<1000, 0>>, <<960, 0>>},
     {<<>>, <<1000, 0>>, <<40, 0>>},
     {<<>>, <<1000, 0>>},
     {<<>>, <<1000, 0>>},
     {<<>>, <<0, 800>>, <<425, 250>>},
     {<<>>, <<1000, 0>>, <<350, 0>>} >>
EntryDates == {1, 6}
EntryObjects ==
  {[time_entry_id |-> 0, employee_id |-> "E1", payroll_id |-> 0,
    entry_date |-> d, day_of_week |-> w, hours_worked |-> h, pto_hours |-> 0,
    is_saturday |-> f, notes |-> "n1"] :
     d \in EntryDates, w \in {"Monday", "Saturday"}, f \in {0, 1},
     h \in {400, 1000}}

----------------------------------------------------------------------------
(* Row helpers *)

MaxOf(S) == IF S = {} THEN 0 ELSE CHOOSE m \in S : \A x \in S : x <= m
MinOf(S) == CHOOSE m \in S : \A x \in S : m <= x

(* cursor.lastrowid of an INSERT: the rowid SQLite gives a new row *)
NewTimeEntryId(te) == MaxOf({r.time_entry_id : r \in te}) + 1
NewPayrollId(pp) == MaxOf({r.payroll_id : r \in pp}) + 1
NewPayrollDetailId(pd) == MaxOf({r.payroll_detail_id : r \in pd}) + 1

(* what a call returns: (success, message, value); of the value, only the  *)
(* ids of the rows it holds are kept                                       *)
Result(o, success, message, value) ==
  [op |-> o, ok |-> success, msg |-> message, ret |-> value]

TimeEntryIds(rows) == {r.time_entry_id : r \in rows}
PayrollDetailIds(rows) == {r.payroll_detail_id : r \in rows}

----------------------------------------------------------------------------
(* Time Entry Ledger: src/src/models/time_entry.py *)

get_day_of_week(d) == DAYS_OF_WEEK[((d - 1) % 7) + 1]

create_entry(eid, d, h, p, n) ==
  LET dow == get_day_of_week(d) IN
  [time_entry_id |-> 0, employee_id |-> eid, payroll_id |-> 0,
   entry_date |-> d, day_of_week |-> dow, hours_worked |-> h, pto_hours |-> p,
   is_saturday |-> IF dow = "Saturday" THEN 1 ELSE 0, notes |-> n]

total_hours(entry) == entry.hours_worked + entry.pto_hours

overtime_hours(entry) ==
  IF entry.hours_worked > OVERTIME_THRESHOLD_DAILY
  THEN entry.hours_worked - OVERTIME_THRESHOLD_DAILY
  ELSE 0

(* regular_hours without the cap at the daily threshold *)
regular_hours_Uncapped(entry) == entry.hours_worked

regular_hours(entry) ==
  IF entry.hours_worked <= OVERTIME_THRESHOLD_DAILY
  THEN entry.hours_worked
  ELSE OVERTIME_THRESHOLD_DAILY

(* validate without the check of the total of worked and PTO hours *)
validate_NoTotal(entry) ==
  (IF entry.day_of_week \notin {DAYS_OF_WEEK[i] : i \in 1..7}
   THEN {"Day of week must be one of"} ELSE {})
  \cup (IF entry.hours_worked < 0 THEN {"Hours worked cannot be negative"} ELSE {})
  \cup (IF entry.hours_worked > MAX_HOURS_PER_DAY
        THEN {"Hours worked cannot exceed"} ELSE {})
  \cup (IF entry.pto_hours < 0 THEN {"PTO hours cannot be negative"} ELSE {})
  \cup (IF entry.pto_hours > MAX_PTO_HOURS_PER_DAY
        THEN {"PTO hours cannot exceed"} ELSE {})
  \cup (IF entry.day_of_week = "Saturday" /\ entry.is_saturday # 1
        THEN {"is_saturday must be 1 for Saturday entries"} ELSE {})

(* the error messages validate() collects; the checks of the id and of the *)
(* date format cannot fail on the ids and dates of this model              *)
validate(entry) ==
  (IF entry.day_of_week \notin {DAYS_OF_WEEK[i] : i \in 1..7}
   THEN {"Day of week must be one of"} ELSE {})
  \cup (IF entry.hours_worked < 0 THEN {"Hours worked cannot be negative"} ELSE {})
  \cup (IF entry.hours_worked > MAX_HOURS_PER_DAY
        THEN {"Hours worked cannot exceed"} ELSE {})
  \cup (IF entry.pto_hours < 0 THEN {"PTO hours cannot be negative"} ELSE {})
  \cup (IF entry.pto_hours > MAX_PTO_HOURS_PER_DAY
        THEN {"PTO hours cannot exceed"} ELSE {})
  \cup (IF total_hours(entry) > MAX_HOURS_PER_DAY
        THEN {"Total hours (worked + PTO) cannot exceed"} ELSE {})
  \cup (IF entry.day_of_week = "Saturday" /\ entry.is_saturday # 1
        THEN {"is_saturday must be 1 for Saturday entries"} ELSE {})

is_valid(entry) == validate(entry) = {}

(* the lookup that never finds the row *)
get_by_employee_and_date_Blind(te, eid, d) == {}

(* SELECT ... WHERE employee_id = ? AND entry_date = ?, fetchone(): the    *)
(* set is empty for None, else holds the first row in rowid order          *)
get_by_employee_and_date(te, eid, d) ==
  LET rows == {r \in te : r.employee_id = eid /\ r.entry_date = d} IN
  IF rows = {} THEN {}
  ELSE {CHOOSE r \in rows : r.time_entry_id = MinOf({x.time_entry_id : x \in rows})}

(* SELECT ... WHERE employee_id = ? AND entry_date >= ? AND entry_date <= ? *)
get_by_employee(te, eid, start_date, end_date) ==
  {r \in te : r.employee_id = eid
              /\ r.entry_date >= start_date /\ r.entry_date <= end_date}

(* INSERT INTO time_entries: the new table *)
TimeEntryInsert(te, entry) ==
  te \cup {[entry EXCEPT !.time_entry_id = NewTimeEntryId(te)]}

(* UPDATE time_entries SET (every column) WHERE time_entry_id = ? *)
TimeEntryUpdate(te, entry) ==
  {IF r.time_entry_id = entry.time_entry_id THEN entry ELSE r : r \in te}

(* save(): nothing is written for an entry that is not valid; INSERT when  *)
(* the object has no id, else UPDATE                                       *)
TimeEntrySave(te, entry) ==
  IF ~is_valid(entry) THEN [te |-> te, ok |-> FALSE]
  ELSE IF entry.time_entry_id = 0
  THEN [te |-> TimeEntryInsert(te, entry), ok |-> TRUE]
  ELSE [te |-> TimeEntryUpdate(te, entry), ok |-> TRUE]

(* DELETE FROM time_entries WHERE time_entry_id = ? *)
TimeEntryDelete(te, entry) ==
  {r \in te : r.time_entry_id # entry.time_entry_id}

(* the WHERE clause without `AND payroll_id IS NULL` *)
AssignMatches_Restamp(r, eid, start_date, end_date) ==
  /\ r.employee_id = eid
  /\ r.entry_date >= start_date
  /\ r.entry_date <= end_date

(* UPDATE time_entries SET payroll_id = ? WHERE employee_id = ?            *)
(*   AND entry_date >= ? AND entry_date <= ? AND payroll_id IS NULL        *)
AssignMatches(r, eid, start_date, end_date) ==
  /\ r.employee_id = eid
  /\ r.entry_date >= start_date
  /\ r.entry_date <= end_date
  /\ r.payroll_id = 0

assign_to_payroll(te, eid, start_date, end_date, pid) ==
  {IF AssignMatches(r, eid, start_date, end_date)
   THEN [r EXCEPT !.payroll_id = pid] ELSE r : r \in te}

(* the row count assign_to_payroll returns *)
AssignCount(te, eid, start_date, end_date) ==
  Cardinality({r \in te : AssignMatches(r, eid, start_date, end_date)})

----------------------------------------------------------------------------
(* Pay Period Registry: src/src/models/payroll.py, class PayrollPeriod *)

PeriodGetById(pp, pid) == {r \in pp : r.payroll_id = pid}

get_by_dates(pp, start_date, end_date) ==
  LET rows == {r \in pp : r.period_start_date = start_date
                          /\ r.period_end_date = end_date} IN
  IF rows = {} THEN {}
  ELSE {CHOOSE r \in rows : r.payroll_id = MinOf({x.payroll_id : x \in rows})}

(* get_or_create that saves a fresh PayrollPeriod object over the row it   *)
(* found                                                                   *)
get_or_create_Resave(pp, start_date, end_date) ==
  LET existing == get_by_dates(pp, start_date, end_date)
      new_period ==
        [payroll_id |-> IF existing = {} THEN NewPayrollId(pp)
                        ELSE (CHOOSE r \in existing : TRUE).payroll_id,
         period_start_date |-> start_date, period_end_date |-> end_date,
         processed_date |-> 0, is_locked |-> 0, processed_by |-> "None"]
  IN [period |-> new_period, pp |-> (pp \ existing) \cup {new_period}]

(* the period returned, and the table after the INSERT when none existed *)
get_or_create(pp, start_date, end_date) ==
  LET existing == get_by_dates(pp, start_date, end_date) IN
  IF existing # {}
  THEN [period |-> CHOOSE r \in existing : TRUE, pp |-> pp]
  ELSE LET new_period ==
             [payroll_id |-> NewPayrollId(pp), period_start_date |-> start_date,
              period_end_date |-> end_date, processed_date |-> 0,
              is_locked |-> 0, processed_by |-> "None"] IN
       [period |-> new_period, pp |-> pp \cup {new_period}]

(* lock(): sets the three fields on the object and writes every column *)
lock(pp, period, processed_by, now) ==
  LET locked == [period EXCEPT !.is_locked = 1, !.processed_date = now,
                               !.processed_by = processed_by] IN
  {IF r.payroll_id = period.payroll_id THEN locked ELSE r : r \in pp}

(* the controller without its lock check *)
EntryLocked_Unchecked(pp, entry) == FALSE

(* a time entry's period is locked: entry.payroll_id is set, the period    *)
(* exists and its is_locked is truthy                                      *)
EntryLocked(pp, entry) ==
  /\ entry.payroll_id # 0
  /\ \E period \in PeriodGetById(pp, entry.payroll_id) : period.is_locked # 0

----------------------------------------------------------------------------
(* PayrollController.submit_time_entry: the new table and the result *)

submit_time_entry(pp, te, eid, d, h, p, n) ==
  LET existing == get_by_employee_and_date(te, eid, d)
      Fail(m) == [te |-> te, res |-> Result("submit_time_entry", FALSE, m, {})]
  IN
  IF eid \notin DOMAIN employees THEN Fail("not found")
  ELSE IF employees[eid].status # EMPLOYEE_STATUS_ACTIVE THEN Fail("not active")
  ELSE IF existing # {}
  THEN LET old == CHOOSE r \in existing : TRUE
           upd == [old EXCEPT !.hours_worked = h, !.pto_hours = p, !.notes = n]
       IN
       IF EntryLocked(pp, old)
       THEN Fail("Cannot edit time entry - payroll period is locked")
       ELSE IF validate(upd) # {} THEN Fail("Validation failed")
       ELSE [te |-> TimeEntryUpdate(te, upd),
             res |-> Result("submit_time_entry", TRUE, "Time entry updated",
                            TimeEntryIds({upd}))]
  ELSE LET entry == create_entry(eid, d, h, p, n) IN
       IF validate(entry) # {} THEN Fail("Validation failed")
       ELSE LET te2 == TimeEntryInsert(te, entry) IN
            [te |-> te2,
             res |-> Result("submit_time_entry", TRUE, "Time entry created",
                            TimeEntryIds(te2 \ te))]

(* PayrollController.delete_time_entry *)
delete_time_entry(pp, te, eid, d) ==
  LET entry == get_by_employee_and_date(te, eid, d)
      Fail(m) == [te |-> te, res |-> Result("delete_time_entry", FALSE, m, {})]
  IN
  IF entry = {} THEN Fail("No time entry found")
  ELSE LET old == CHOOSE r \in entry : TRUE IN
       IF EntryLocked(pp, old)
       THEN Fail("Cannot delete time entry - payroll period is locked")
       ELSE [te |-> TimeEntryDelete(te, old),
             res |-> Result("delete_time_entry", TRUE, "Time entry deleted", {})]

----------------------------------------------------------------------------
(* Payroll Calculator: src/src/models/payroll.py, class PayrollCalculator *)

(* num / den (den > 0) rounded to the nearest integer, a tie to the even   *)
(* neighbour: round(x, n) of Python                                        *)
RoundHalfEven(num, den) ==
  LET q == num \div den
      r == num - q * den
  IN IF 2 * r < den THEN q
     ELSE IF 2 * r > den THEN q + 1
     ELSE IF q % 2 = 0 THEN q ELSE q + 1

(* Binary doubles. Every amount of the calculator is a Python float. A     *)
(* double is carried as the decimal n (in 1/Scale of a dollar) it stands   *)
(* for plus its deviation from n, counted in 2^(e0 - MantissaBits) / Scale *)
(* of a dollar, where e0 is a binary exponent below those of all the       *)
(* operands of one computation.                                            *)
Scale == 10000
MantissaBits == 52

Abs(x) == IF x < 0 THEN 0 - x ELSE x

RECURSIVE Halvings(_)
Halvings(q) == IF q >= 2 THEN 1 + Halvings(q \div 2) ELSE 0

RECURSIVE Doublings(_)
Doublings(m) == IF m < Scale THEN 1 + Doublings(2 * m) ELSE 0

RECURSIVE Pow2(_)
Pow2(k) == IF k = 0 THEN 1 ELSE 2 * Pow2(k - 1)

(* (r * 2^k) mod m, for r < m, eight doublings at a time *)
RECURSIVE DoubleMod(_, _, _)
DoubleMod(r, k, m) ==
  IF k = 0 THEN r
  ELSE IF k >= 8 THEN DoubleMod((256 * r) % m, k - 8, m)
  ELSE DoubleMod((2 * r) % m, k - 1, m)

(* the e with 2^e <= n / Scale < 2^(e+1), n > 0 *)
Binade(n) == IF n >= Scale THEN Halvings(n \div Scale) ELSE 0 - Doublings(n)

(* n / Scale is a power of two: a value just below it has the finer grid *)
IsPowerOfTwo(n, e) ==
  IF e >= 0 THEN n = Scale * Pow2(e) ELSE n * Pow2(0 - e) = Scale

ExponentOf(n, dev) ==
  IF dev < 0 /\ IsPowerOfTwo(n, Binade(n)) THEN Binade(n) - 1 ELSE Binade(n)

(* round to nearest, ties to the even mantissa: y lies j grid steps and    *)
(* rem above the double below n / Scale, whose mantissa has parity odd     *)
NearestStep(j, rem, grid, odd) ==
  IF 2 * rem > grid \/ (2 * rem = grid /\ (odd + j) % 2 # 0) THEN j + 1 ELSE j

(* r2 is (n * 2^(MantissaBits - e)) mod (2 * Scale): its part below Scale  *)
(* is how far n / Scale lies above the double below it                     *)
GridRound(dev, sc, r2) ==
  NearestStep((dev + (r2 % Scale) * sc) \div (Scale * sc),
              (dev + (r2 % Scale) * sc) % (Scale * sc),
              Scale * sc,
              IF r2 >= Scale THEN 1 ELSE 0) * Scale * sc
  - (r2 % Scale) * sc

FloatRoundAt(n, dev, e, e0) ==
  GridRound(dev, Pow2(e - e0),
            DoubleMod(n % (2 * Scale), MantissaBits - e, 2 * Scale))

(* the result of a float operation whose exact value is n / Scale plus     *)
(* dev: the deviation from n / Scale of the double nearest to it           *)
FloatRound(n, dev, e0) ==
  IF n = 0 THEN dev
  ELSE IF n < 0 THEN 0 - FloatRoundAt(0 - n, 0 - dev, ExponentOf(0 - n, 0 - dev), e0)
  ELSE FloatRoundAt(n, dev, ExponentOf(n, dev), e0)

(* the float a decimal literal or a round(x, k) result is: the double      *)
(* nearest to n / Scale                                                    *)
FloatOf(n, e0) == FloatRound(n, 0, e0)

FloatAdd(n1, dev1, n2, dev2, e0) == FloatRound(n1 + n2, dev1 + dev2, e0)
FloatSub(n1, dev1, n2, dev2, e0) == FloatRound(n1 - n2, dev1 - dev2, e0)

Sign(x) == IF x < 0 THEN 0 - 1 ELSE IF x > 0 THEN 1 ELSE 0

(* round_currency: Decimal(str(value)).quantize(0.01, ROUND_HALF_UP). The  *)
(* double stands for value (in hundredths of a cent) and lies on side      *)
(* `side` (-1 below, 0 on, 1 above) of the double nearest to value;        *)
(* str() prints the shortest decimal that reads back as the double, so a   *)
(* double off the one nearest to a tie prints as a decimal off the tie and *)
(* ROUND_HALF_UP (a tie goes away from zero) sees no tie                   *)
round_currency(value, side) ==
  IF Abs(value) % 100 = 50 /\ side * Sign(value) < 0
  THEN Sign(value) * (Abs(value) \div 100)
  ELSE Sign(value) * ((Abs(value) + 50) \div 100)

(* the loop with the daily overtime split applied to Saturday entries too *)
EntryHours_SaturdaySplit(entry, bucket) ==
  CASE bucket = "pto" -> entry.pto_hours
    [] bucket = "saturday" -> IF entry.is_saturday # 0 THEN regular_hours(entry) ELSE 0
    [] bucket = "regular" -> IF entry.is_saturday # 0 THEN 0 ELSE regular_hours(entry)
    [] bucket = "overtime" -> overtime_hours(entry)

(* what one entry adds to a bucket in the loop of calculate_hourly_pay *)
EntryHours(entry, bucket) ==
  CASE bucket = "pto" -> entry.pto_hours
    [] bucket = "saturday" -> IF entry.is_saturday # 0 THEN entry.hours_worked ELSE 0
    [] bucket = "regular" -> IF entry.is_saturday # 0 THEN 0 ELSE regular_hours(entry)
    [] bucket = "overtime" -> IF entry.is_saturday # 0 THEN 0 ELSE overtime_hours(entry)

RECURSIVE SumHours(_, _)
SumHours(entries, bucket) ==
  IF entries = {} THEN 0
  ELSE LET x == CHOOSE y \in entries : TRUE IN
       EntryHours(x, bucket) + SumHours(entries \ {x}, bucket)

(* the pay of the four sums of hours, lines 697-713. Hundredths of an hour *)
(* times cents are hundredths of a cent; hours * rate * 1.5 is kept in     *)
(* halves of a hundredth of a cent                                         *)
HourlyPayData(reg, ot, sat, pto, hourly_rate) ==
  [regular_hours |-> reg, overtime_hours |-> ot, saturday_hours |-> sat,
   pto_hours |-> pto, total_hours |-> reg + ot + sat + pto,
   base_pay |-> RoundHalfEven((reg + pto) * hourly_rate, 100),
   overtime_pay |-> RoundHalfEven(ot * hourly_rate * 3, 200),
   saturday_pay |-> RoundHalfEven(sat * hourly_rate * 3, 200),
   gross_pay |-> RoundHalfEven(2 * (reg + pto) * hourly_rate
                               + ot * hourly_rate * 3
                               + sat * hourly_rate * 3, 200)]

calculate_hourly_pay(entries, hourly_rate) ==
  HourlyPayData(SumHours(entries, "regular"), SumHours(entries, "overtime"),
                SumHours(entries, "saturday"), SumHours(entries, "pto"),
                hourly_rate)

calculate_salary_pay(annual_salary) ==
  [regular_hours |-> STANDARD_WORK_HOURS_PER_WEEK, overtime_hours |-> 0,
   saturday_hours |-> 0, pto_hours |-> 0,
   total_hours |-> STANDARD_WORK_HOURS_PER_WEEK,
   base_pay |-> RoundHalfEven(annual_salary, WEEKS_PER_YEAR),
   overtime_pay |-> 0, saturday_pay |-> 0,
   gross_pay |-> RoundHalfEven(annual_salary, WEEKS_PER_YEAR)]

calculate_medical_deduction(medical_type) ==
  IF medical_type = MEDICAL_TYPE_FAMILY
  THEN MEDICAL_DEDUCTION_FAMILY ELSE MEDICAL_DEDUCTION_SINGLE

calculate_dependent_stipend(num_dependents) ==
  num_dependents * DEPENDENT_STIPEND_PER_DEPENDENT

(* round(taxable_income * RATE, 4), lines 787-816. A rate r stands for     *)
(* r / Scale (0.0315 is 315), so cents * r is in millionths of a dollar    *)
(* and round(x, 4) divides it by 100. Off a tie the nearest value is       *)
(* taken; on a tie of the decimal product the double product decides: it   *)
(* is the exact product of the double of the taxable income and the double *)
(* of the rate, rounded to the grid of doubles                             *)
Million == 1000000

RECURSIVE DoublingsTo(_, _)
DoublingsTo(m, den) == IF m < den THEN 1 + DoublingsTo(2 * m, den) ELSE 0

(* the e with 2^e <= n / den < 2^(e+1), n > 0 *)
BinadeIn(n, den) ==
  IF n >= den THEN Halvings(n \div den) ELSE 0 - DoublingsTo(n, den)

(* v * 2^k *)
Shift(v, k) == IF k >= 0 THEN v * Pow2(k) ELSE v \div Pow2(0 - k)

(* the deviation of the nearest double from a decimal lying fr / Scale of  *)
(* a grid step above the double below it                                   *)
NearestDeviation(fr) == IF 2 * fr < Scale THEN 0 - fr ELSE Scale - fr

(* the deviation of the double of a rate literal, in 1 / Scale of its own  *)
(* grid step                                                               *)
RateDeviation(rate) ==
  NearestDeviation(DoubleMod(rate % Scale, MantissaBits - Binade(rate), Scale))

(* the exact product lies (n + a fraction) / Million grid steps above the  *)
(* double below the decimal product, the fraction being zero iff `whole`;  *)
(* second is the sign of the product of the two deviations. The number of  *)
(* grid steps the nearest double lies above that double                    *)
ProductStep(n, whole, second, odd) ==
  IF (n + Million \div 2) % Million = 0 /\ whole
     /\ (second < 0
         \/ (second = 0 /\ (odd + (n + Million \div 2) \div Million) % 2 # 0))
  THEN (n + Million \div 2) \div Million - 1
  ELSE (n + Million \div 2) \div Million

(* the double product lies j grid steps above the double below the        *)
(* decimal product, which lies phi / Million of a step above that double:  *)
(* -1, 0, 1 as the double product is below, on, above the decimal product  *)
SideOfStep(phi, j) ==
  IF phi = 0 /\ j = 0 THEN 0 ELSE IF j >= 1 THEN 1 ELSE 0 - 1

(* r2 is (cents * rate * 2^(MantissaBits - e)) mod (2 * Million), e the    *)
(* exponent of the product, rho the deviation of the rate. The exact       *)
(* product of the two doubles is the decimal product plus                  *)
(* cents * (deviation of the rate) + rate * (deviation of the income) +    *)
(* the product of the deviations                                           *)
ProductSideOf(cents, dev, e0, rate, e, rho, r2) ==
  SideOfStep(r2 % Million,
             ProductStep((r2 % Million) + rate * Shift(dev \div 100, e0 - e)
                         + Shift(cents * rho, Binade(rate) - e),
                         e <= Binade(rate)
                         \/ (cents * rho) % Pow2(e - Binade(rate)) = 0,
                         Sign(dev) * Sign(rho),
                         IF r2 >= Million THEN 1 ELSE 0))

ProductSideAt(cents, dev, e0, rate, e) ==
  ProductSideOf(cents, dev, e0, rate, e, RateDeviation(rate),
                DoubleMod((cents * rate) % (2 * Million), MantissaBits - e,
                          2 * Million))

(* cents > 0 is the decimal the double of the taxable income stands for,   *)
(* dev its deviation in 2^(e0 - MantissaBits) / Scale of a dollar          *)
ProductSide(cents, dev, e0, rate) ==
  ProductSideAt(cents, dev, e0, rate, BinadeIn(cents * rate, Million))

(* q + 1/2 rounded to an integer when the double that stands for it lies  *)
(* on side `side` of it                                                    *)
RoundToSide(q, side) ==
  IF side > 0 \/ (side = 0 /\ q % 2 # 0) THEN q + 1 ELSE q

(* round(x, 4) of the product: the nearest ten-thousandth of the double,   *)
(* a double that is the tie itself going to the even neighbour             *)
TaxAmount(taxable_income, dev, e0, rate) ==
  IF (Abs(taxable_income) * rate) % 100 # 50
  THEN Sign(taxable_income) * ((Abs(taxable_income) * rate + 50) \div 100)
  ELSE Sign(taxable_income)
       * RoundToSide((Abs(taxable_income) * rate) \div 100,
                     ProductSide(Abs(taxable_income), Sign(taxable_income) * dev,
                                 e0, rate))

(* calculate_taxes, lines 771-822: the totals are round(sum, 4) of four    *)
(* and three ten-thousandths, which is their sum                           *)
calculate_taxes(taxable_income, dev, e0) ==
  LET state_tax == TaxAmount(taxable_income, dev, e0, STATE_TAX_RATE_IN)
      fed == TaxAmount(taxable_income, dev, e0, FEDERAL_TAX_RATE_EMPLOYEE)
      ss == TaxAmount(taxable_income, dev, e0, SOCIAL_SECURITY_RATE_EMPLOYEE)
      med == TaxAmount(taxable_income, dev, e0, MEDICARE_RATE_EMPLOYEE)
      fedr == TaxAmount(taxable_income, dev, e0, FEDERAL_TAX_RATE_EMPLOYER)
      ssr == TaxAmount(taxable_income, dev, e0, SOCIAL_SECURITY_RATE_EMPLOYER)
      medr == TaxAmount(taxable_income, dev, e0, MEDICARE_RATE_EMPLOYER)
  IN [state_tax |-> state_tax, federal_tax_employee |-> fed,
      social_security_employee |-> ss, medicare_employee |-> med,
      total_employee_taxes |-> state_tax + fed + ss + med,
      federal_tax_employer |-> fedr, social_security_employer |-> ssr,
      medicare_employer |-> medr, total_employer_taxes |-> fedr + ssr + medr]

(* the exponent e0 the deviations of one net pay computation are counted  *)
(* in: one below the binades of all its non-zero operands                  *)
NetPayBase(operands) ==
  MinOf({Binade(Abs(x)) : x \in operands \ {0}}) - 1

(* the double gross_pay = pay_data["gross_pay"] + dependent_stipend of the *)
(* controller (line 359): rounded_pay is a round(x, 2) result, the stipend *)
(* a whole number of dollars                                               *)
GrossPayFloat(gross_pay, rounded_pay, e0) ==
  FloatAdd(100 * rounded_pay, FloatOf(100 * rounded_pay, e0),
           100 * (gross_pay - rounded_pay), 0, e0)

(* taxable_income = gross_pay - medical_deduction (line 842) *)
TaxableFloat(gross_pay, rounded_pay, medical_deduction, e0) ==
  FloatSub(100 * gross_pay, GrossPayFloat(gross_pay, rounded_pay, e0),
           100 * medical_deduction, 0, e0)

(* net_pay = taxable_income - total_employee_taxes (line 845), the taxes   *)
(* being a round(x, 4) result                                              *)
NetPayFloat(gross_pay, rounded_pay, medical_deduction, total_employee_taxes, e0) ==
  FloatSub(100 * (gross_pay - medical_deduction),
           TaxableFloat(gross_pay, rounded_pay, medical_deduction, e0),
           total_employee_taxes, FloatOf(total_employee_taxes, e0), e0)

(* on which side of the double nearest to the decimal net pay the computed *)
(* double lies                                                             *)
NetPaySideAt(gross_pay, rounded_pay, medical_deduction, total_employee_taxes, e0) ==
  Sign(NetPayFloat(gross_pay, rounded_pay, medical_deduction,
                   total_employee_taxes, e0)
       - FloatOf(100 * (gross_pay - medical_deduction) - total_employee_taxes, e0))

NetPaySide(gross_pay, rounded_pay, medical_deduction, total_employee_taxes) ==
  NetPaySideAt(gross_pay, rounded_pay, medical_deduction, total_employee_taxes,
               NetPayBase({100 * rounded_pay, 100 * gross_pay,
                           100 * (gross_pay - medical_deduction),
                           total_employee_taxes,
                           100 * (gross_pay - medical_deduction)
                           - total_employee_taxes}))

(* calculate_net_pay, lines 824-856. gross_pay is the double the caller    *)
(* summed from rounded_pay and the stipend; a 2-decimal taxable income is  *)
(* never a tie of round_currency, whatever its side                        *)
calculate_net_pay(gross_pay, medical_deduction, total_employee_taxes, rounded_pay) ==
  [taxable_income |-> round_currency(100 * (gross_pay - medical_deduction), 0),
   net_pay |-> round_currency(100 * (gross_pay - medical_deduction)
                              - total_employee_taxes,
                              NetPaySide(gross_pay, rounded_pay, medical_deduction,
                                         total_employee_taxes))]

----------------------------------------------------------------------------
(* Payroll Detail Ledger: src/src/models/payroll.py, class PayrollDetail *)

get_by_payroll_and_employee(pd, pid, eid) ==
  LET rows == {r \in pd : r.payroll_id = pid /\ r.employee_id = eid} IN
  IF rows = {} THEN {}
  ELSE {CHOOSE r \in rows :
          r.payroll_detail_id = MinOf({x.payroll_detail_id : x \in rows})}

(* save() that always INSERTs *)
PayrollDetailSave_Insert(pd, detail) ==
  pd \cup {[detail EXCEPT !.payroll_detail_id = NewPayrollDetailId(pd)]}

(* save(): INSERT when the object has no id, else UPDATE of every column   *)
(* WHERE payroll_detail_id = ?                                             *)
PayrollDetailSave(pd, detail) ==
  IF detail.payroll_detail_id = 0
  THEN pd \cup {[detail EXCEPT !.payroll_detail_id = NewPayrollDetailId(pd)]}
  ELSE {IF r.payroll_detail_id = detail.payroll_detail_id THEN detail ELSE r :
          r \in pd}

(* the fields calculate_weekly_pay sets on the detail, lines 381-407 *)
DetailFields(pay_data, dependent_stipend, medical_deduction, tax_data) ==
  [regular_hours |-> pay_data.regular_hours,
   overtime_hours |-> pay_data.overtime_hours,
   saturday_hours |-> pay_data.saturday_hours,
   pto_hours |-> pay_data.pto_hours,
   total_hours |-> pay_data.total_hours,
   base_pay |-> pay_data.base_pay,
   overtime_pay |-> pay_data.overtime_pay,
   saturday_pay |-> pay_data.saturday_pay,
   gross_pay |-> pay_data.gross_pay + dependent_stipend,
   medical_deduction |-> medical_deduction,
   dependent_stipend |-> dependent_stipend,
   taxable_income |-> pay_data.gross_pay + dependent_stipend - medical_deduction,
   state_tax |-> tax_data.state_tax,
   federal_tax_employee |-> tax_data.federal_tax_employee,
   social_security_employee |-> tax_data.social_security_employee,
   medicare_employee |-> tax_data.medicare_employee,
   total_employee_taxes |-> tax_data.total_employee_taxes,
   net_pay |-> calculate_net_pay(pay_data.gross_pay + dependent_stipend,
                                 medical_deduction,
                                 tax_data.total_employee_taxes,
                                 pay_data.gross_pay).net_pay,
   federal_tax_employer |-> tax_data.federal_tax_employer,
   social_security_employer |-> tax_data.social_security_employer,
   medicare_employer |-> tax_data.medicare_employer,
   total_employer_taxes |-> tax_data.total_employer_taxes]

(* the taxes computed on gross pay *)
TaxedDetailAt_OnGross(pay_data, dependent_stipend, medical_deduction, e0) ==
  DetailFields(pay_data, dependent_stipend, medical_deduction,
               calculate_taxes(pay_data.gross_pay + dependent_stipend,
                               GrossPayFloat(pay_data.gross_pay + dependent_stipend,
                                             pay_data.gross_pay, e0),
                               e0))

(* lines 359-372: the taxes of gross pay less the medical deduction, the  *)
(* taxable income being the double gross_pay - medical_deduction           *)
TaxedDetailAt(pay_data, dependent_stipend, medical_deduction, e0) ==
  DetailFields(pay_data, dependent_stipend, medical_deduction,
               calculate_taxes(pay_data.gross_pay + dependent_stipend
                               - medical_deduction,
                               TaxableFloat(pay_data.gross_pay + dependent_stipend,
                                            pay_data.gross_pay,
                                            medical_deduction, e0),
                               e0))

TaxedDetail(pay_data, dependent_stipend, medical_deduction) ==
  TaxedDetailAt(pay_data, dependent_stipend, medical_deduction,
                NetPayBase({100 * pay_data.gross_pay,
                            100 * (pay_data.gross_pay + dependent_stipend),
                            100 * (pay_data.gross_pay + dependent_stipend
                                   - medical_deduction)}))

(* the pay of every employee computed from the time entries *)
ComputedDetail_ByEntries(emp, entries) ==
  TaxedDetail(calculate_hourly_pay(entries, emp.hourly_rate),
              calculate_dependent_stipend(emp.num_dependents),
              calculate_medical_deduction(emp.medical_type))

(* lines 335-365: the pay by salary type, the stipend and the deduction *)
ComputedDetail(emp, entries) ==
  TaxedDetail(IF emp.salary_type = SALARY_TYPE_SALARY
              THEN calculate_salary_pay(emp.base_salary)
              ELSE calculate_hourly_pay(entries, emp.hourly_rate),
              calculate_dependent_stipend(emp.num_dependents),
              calculate_medical_deduction(emp.medical_type))

ComputedFields == DOMAIN ComputedDetail(InitialEmployees["E2"], {})

(* the detail object with its computed fields replaced *)
WithComputed(detail, c) ==
  [f \in DOMAIN detail |-> IF f \in DOMAIN c THEN c[f] ELSE detail[f]]

NewDetail(pid, eid) ==
  [f \in {"payroll_detail_id", "payroll_id", "employee_id"} \cup ComputedFields |->
     IF f = "payroll_detail_id" THEN 0
     ELSE IF f = "payroll_id" THEN pid
     ELSE IF f = "employee_id" THEN eid
     ELSE 0]

----------------------------------------------------------------------------
(* Payroll Orchestrator: src/src/controllers/payroll_controller.py *)

(* line 328: `if existing and period.is_locked` *)
AlreadyCalculatedAndLocked_Unchecked(existing, period) == FALSE

AlreadyCalculatedAndLocked(existing, period) ==
  existing # {} /\ period.is_locked # 0

(* lines 410-414: the time entries after detail.save() returned save_ok *)
AssignAfterSave_Always(te, save_ok, eid, start_date, end_date, pid) ==
  assign_to_payroll(te, eid, start_date, end_date, pid)

AssignAfterSave(te, save_ok, eid, start_date, end_date, pid) ==
  IF save_ok THEN assign_to_payroll(te, eid, start_date, end_date, pid) ELSE te

(* what calculate_weekly_pay leaves: the three tables and its result *)
Outcome(pp, pd, te, success, m, value) ==
  [pp |-> pp, pd |-> pd, te |-> te,
   res |-> Result("calculate_weekly_pay", success, m, value)]

(* lines 409-417: detail.save(), then the assignment, then the return.     *)
(* save_ok is the outcome of detail.save(): the store can refuse the write *)
(* (IntegrityError gives False, any other sqlite3 error is caught by the   *)
(* handler at line 419); both ways the call returns a failure and the      *)
(* details are as they were.                                               *)
SaveAndAssign(pp, pd, te, eid, start_date, end_date, save_ok, pid, detail, pd2) ==
  IF save_ok
  THEN Outcome(pp, pd2,
               AssignAfterSave(te, save_ok, eid, start_date, end_date, pid),
               TRUE, "Payroll calculated",
               PayrollDetailIds(IF detail.payroll_detail_id = 0 THEN pd2 \ pd
                                ELSE {detail}))
  ELSE Outcome(pp, pd,
               AssignAfterSave(te, save_ok, eid, start_date, end_date, pid),
               FALSE, "Failed to save payroll detail", {})

(* lines 374-407: detail = existing or PayrollDetail(...), every computed  *)
(* field set                                                               *)
UpsertDetail(pp, pd, te, eid, start_date, end_date, save_ok, pid, detail) ==
  SaveAndAssign(pp, pd, te, eid, start_date, end_date, save_ok, pid, detail,
                PayrollDetailSave(pd, detail))

(* lines 328-378, with the period and the detail that were looked up *)
CalculateDetail(pp, pd, te, eid, start_date, end_date, save_ok, period, existing) ==
  IF AlreadyCalculatedAndLocked(existing, period)
  THEN Outcome(pp, pd, te, TRUE, "Payroll already calculated and locked",
               PayrollDetailIds(existing))
  ELSE IF /\ employees[eid].salary_type = SALARY_TYPE_SALARY
          /\ employees[eid].base_salary < 0
  THEN Outcome(pp, pd, te, FALSE, "Salaried employee has no base salary set", {})
  ELSE IF /\ employees[eid].salary_type = SALARY_TYPE_HOURLY
          /\ employees[eid].hourly_rate < 0
  THEN Outcome(pp, pd, te, FALSE, "Hourly employee has no hourly rate set", {})
  ELSE IF employees[eid].salary_type \notin {SALARY_TYPE_SALARY, SALARY_TYPE_HOURLY}
  THEN Outcome(pp, pd, te, FALSE, "Unknown salary type", {})
  ELSE UpsertDetail(pp, pd, te, eid, start_date, end_date, save_ok,
                    period.payroll_id,
                    WithComputed(IF existing # {} THEN CHOOSE r \in existing : TRUE
                                 ELSE NewDetail(period.payroll_id, eid),
                                 ComputedDetail(employees[eid],
                                                get_by_employee(te, eid, start_date,
                                                                end_date))))

(* lines 319-326, with the outcome of get_or_create *)
CalculateInPeriod(goc, pd, te, eid, start_date, end_date, save_ok) ==
  CalculateDetail(goc.pp, pd, te, eid, start_date, end_date, save_ok, goc.period,
                  get_by_payroll_and_employee(pd, goc.period.payroll_id, eid))

(* calculate_weekly_pay: the three tables after the call and its result *)
calculate_weekly_pay(pp, pd, te, eid, start_date, end_date, save_ok) ==
  IF eid \notin DOMAIN employees
  THEN Outcome(pp, pd, te, FALSE, "Employee not found", {})
  ELSE CalculateInPeriod(get_or_create(pp, start_date, end_date), pd, te, eid,
                         start_date, end_date, save_ok)

(* Employee.get_all(include_terminated), in the order of the query *)
get_all(include_terminated) ==
  LET ids == <<"E1", "E2">> IN
  SelectSeq(ids, LAMBDA e : include_terminated
                            \/ employees[e].status = EMPLOYEE_STATUS_ACTIVE)

(* the loop of calculate_all_payroll over emps[i..]; saved is the set of   *)
(* employees whose detail.save() the store accepts. CalcStep is the body   *)
(* of the loop after calculate_weekly_pay has returned r.                  *)
RECURSIVE CalcLoop(_, _, _, _, _, _, _, _, _)
RECURSIVE CalcStep(_, _, _, _, _, _, _)
(* the loop body with a `break` after the first failure *)
CalcStep_Abort(r, emps, i, start_date, end_date, saved, acc) ==
  IF r.res.ok /\ r.res.ret # {}
  THEN CalcLoop(r.pp, r.pd, r.te, emps, i + 1, start_date, end_date, saved,
                [acc EXCEPT !.results = Append(@, CHOOSE d \in r.res.ret : TRUE)])
  ELSE CalcLoop(r.pp, r.pd, r.te, emps, Len(emps) + 1, start_date, end_date,
                saved, [acc EXCEPT !.errors = Append(@, <<emps[i], r.res.msg>>)])

CalcLoop(pp, pd, te, emps, i, start_date, end_date, saved, acc) ==
  IF i > Len(emps)
  THEN [pp |-> pp, pd |-> pd, te |-> te, results |-> acc.results,
        errors |-> acc.errors]
  ELSE CalcStep(calculate_weekly_pay(pp, pd, te, emps[i], start_date, end_date,
                                     emps[i] \in saved),
                emps, i, start_date, end_date, saved, acc)

CalcStep(r, emps, i, start_date, end_date, saved, acc) ==
  CalcLoop(r.pp, r.pd, r.te, emps, i + 1, start_date, end_date, saved,
           IF r.res.ok /\ r.res.ret # {}
           THEN [acc EXCEPT !.results = Append(@, CHOOSE d \in r.res.ret : TRUE)]
           ELSE [acc EXCEPT !.errors = Append(@, <<emps[i], r.res.msg>>)])

(* lines 454-460: the message and the list returned after the loop *)
BatchOutcome(r) ==
  [pp |-> r.pp, pd |-> r.pd, te |-> r.te, errors |-> r.errors,
   res |-> Result("calculate_all_payroll", TRUE,
                  IF r.errors # <<>> THEN "Calculated with errors"
                  ELSE "Successfully calculated payroll",
                  {r.results[i] : i \in 1..Len(r.results)})]

calculate_all_payroll(pp, pd, te, start_date, end_date, active_only, saved) ==
  BatchOutcome(CalcLoop(pp, pd, te, get_all(~active_only), 1, start_date,
                        end_date, saved, [results |-> <<>>, errors |-> <<>>]))

(* approve_payroll without the `if period.is_locked` return *)
approve_payroll_Relock(pp, now, pid, approved_by) ==
  LET period == PeriodGetById(pp, pid) IN
  IF period = {}
  THEN [pp |-> pp, now |-> now,
        res |-> Result("approve_payroll", FALSE, "Payroll period not found", {})]
  ELSE [pp |-> lock(pp, CHOOSE r \in period : TRUE, approved_by, now + 1),
        now |-> now + 1,
        res |-> Result("approve_payroll", TRUE, "Payroll period approved", {})]

(* approve_payroll: the period table, the clock and the result *)
approve_payroll(pp, now, pid, approved_by) ==
  LET period == PeriodGetById(pp, pid)
      Fail(m) == [pp |-> pp, now |-> now,
                  res |-> Result("approve_payroll", FALSE, m, {})]
  IN
  IF period = {} THEN Fail("Payroll period not found")
  ELSE LET p == CHOOSE r \in period : TRUE IN
       IF p.is_locked # 0 THEN Fail("Payroll period is already locked")
       ELSE [pp |-> lock(pp, p, approved_by, now + 1), now |-> now + 1,
             res |-> Result("approve_payroll", TRUE, "Payroll period approved", {})]

(* the loop of auto_fill_salaried_hours from current_date to end_date *)
RECURSIVE FillLoop(_, _, _, _)
FillLoop(te, eid, current_date, end_date) ==
  IF current_date > end_date THEN te
  ELSE LET entry == create_entry(eid, current_date, SALARIED_AUTO_HOURS_PER_DAY,
                                 0, "Auto-filled for salaried employee")
           te2 == IF /\ get_day_of_week(current_date) \in SALARIED_WORK_DAYS
                     /\ get_by_employee_and_date(te, eid, current_date) = {}
                     /\ is_valid(entry)
                  THEN TimeEntryInsert(te, entry)
                  ELSE te
       IN FillLoop(te2, eid, current_date + 1, end_date)

auto_fill_salaried_hours(te, eid, start_date, end_date) ==
  LET Fail(m) == [te |-> te, res |-> Result("auto_fill_salaried_hours", FALSE, m, {})]
  IN
  IF eid \notin DOMAIN employees THEN Fail("Employee not found")
  ELSE IF employees[eid].salary_type # SALARY_TYPE_SALARY
  THEN Fail("Auto-fill is only for salaried employees")
  ELSE LET te2 == FillLoop(te, eid, start_date, end_date) IN
       [te |-> te2,
        res |-> Result("auto_fill_salaried_hours", TRUE, "Created time entries",
                       TimeEntryIds(te2 \ te))]

----------------------------------------------------------------------------
(* EmployeeController: src/src/controllers/employee_controller.py.         *)
(* Employee.delete() sets the status column; reactivate_employee goes      *)
(* through update_employee, whose validate() checks the stored employee:   *)
(* of its checks, those of the compensation fields can fail for a stored   *)
(* row.                                                                    *)

(* Employee.validate, lines 263-272 of src/src/models/employee.py *)
CompensationValid(emp) ==
  /\ emp.salary_type = SALARY_TYPE_SALARY => emp.base_salary > 0
  /\ emp.salary_type = SALARY_TYPE_HOURLY => emp.hourly_rate > 0

(* terminate_employee without the `already terminated` return *)
terminate_employee_Again(emps, eid) ==
  IF eid \notin DOMAIN emps
  THEN [emps |-> emps, res |-> Result("terminate_employee", FALSE, "not found", {})]
  ELSE [emps |-> [emps EXCEPT ![eid].status = EMPLOYEE_STATUS_TERMINATED],
        res |-> Result("terminate_employee", TRUE, "terminated successfully", {})]

terminate_employee(emps, eid) ==
  LET Fail(m) == [emps |-> emps, res |-> Result("terminate_employee", FALSE, m, {})]
  IN
  IF eid \notin DOMAIN emps THEN Fail("not found")
  ELSE IF emps[eid].status = EMPLOYEE_STATUS_TERMINATED THEN Fail("already terminated")
  ELSE [emps |-> [emps EXCEPT ![eid].status = EMPLOYEE_STATUS_TERMINATED],
        res |-> Result("terminate_employee", TRUE, "terminated successfully", {})]

reactivate_employee(emps, eid) ==
  LET Fail(m) == [emps |-> emps, res |-> Result("reactivate_employee", FALSE, m, {})]
  IN
  IF eid \notin DOMAIN emps THEN Fail("not found")
  ELSE IF emps[eid].status = EMPLOYEE_STATUS_ACTIVE THEN Fail("already active")
  ELSE IF ~CompensationValid(emps[eid]) THEN Fail("Validation failed")
  ELSE [emps |-> [emps EXCEPT ![eid].status = EMPLOYEE_STATUS_ACTIVE],
        res |-> Result("reactivate_employee", TRUE, "updated successfully", {})]

----------------------------------------------------------------------------
(* Requests in flight. The web application serves requests concurrently    *)
(* and every SQL statement runs on a connection of its own that commits    *)
(* at once (src/src/models/base_model.py), so a controller call is a       *)
(* sequence of atomic statements with the objects it has read in between.  *)
(* A call holds: the operation, the statement it is at, the objects it     *)
(* has read (each a set: empty for None), the detail it has computed, its  *)
(* result, and the order number of its write of a payroll detail.          *)

Callers == {1, 2, 3}

Call(o, args, at, period, existing, entry, entries, detail, res, wrote) ==
  [op |-> o, args |-> args, pc |-> at, period |-> period, existing |-> existing,
   entry |-> entry, entries |-> entries, detail |-> detail, res |-> res,
   wrote |-> wrote]

NewCall(o, args) ==
  Call(o, args, "start", {}, {}, {}, {}, {}, Result(o, FALSE, "", {}), 0)

(* the call has returned (success, message, value) *)
Done(call, success, message, value) ==
  [call EXCEPT !.pc = "done", !.res = Result(call.op, success, message, value)]

(* no request in flight: the operations are called one at a time *)
NoCalls == [c \in Callers |-> NewCall("none", <<>>)]

----------------------------------------------------------------------------
(* The store after construction: the two employees, no period, no detail,  *)
(* no time entry                                                           *)

Init ==
  /\ employees = InitialEmployees
  /\ payroll_periods = {}
  /\ payroll_details = {}
  /\ time_entries = {}
  /\ clock = 0
  /\ last = Result("init", TRUE, "", {})
  /\ calls = NoCalls

SubmitTimeEntry(eid, d, a) ==
  \E r \in {submit_time_entry(payroll_periods, time_entries, eid, d, a[1], a[2], a[3])} :
     /\ \A x \in r.te : x.time_entry_id <= MaxTimeEntryId
     /\ time_entries' = r.te
     /\ last' = r.res
     /\ UNCHANGED <<calls, employees, payroll_periods, payroll_details, clock>>

DeleteTimeEntry(eid, d) ==
  \E r \in {delete_time_entry(payroll_periods, time_entries, eid, d)} :
     /\ time_entries' = r.te
     /\ last' = r.res
     /\ UNCHANGED <<calls, employees, payroll_periods, payroll_details, clock>>

CalculateWeeklyPay(eid, rg, save_ok) ==
  \E r \in {calculate_weekly_pay(payroll_periods, payroll_details, time_entries,
                                eid, rg[1], rg[2], save_ok)} :
     /\ payroll_periods' = r.pp
     /\ payroll_details' = r.pd
     /\ time_entries' = r.te
     /\ last' = r.res
     /\ UNCHANGED <<calls, employees, clock>>

CalculateAllPayroll(rg, active_only, saved) ==
  \E r \in {calculate_all_payroll(payroll_periods, payroll_details, time_entries,
                                 rg[1], rg[2], active_only, saved)} :
     /\ payroll_periods' = r.pp
     /\ payroll_details' = r.pd
     /\ time_entries' = r.te
     /\ last' = r.res
     /\ UNCHANGED <<calls, employees, clock>>

ApprovePayroll(pid, approved_by) ==
  \E r \in {approve_payroll(payroll_periods, clock, pid, approved_by)} :
     /\ r.now <= MaxClock
     /\ payroll_periods' = r.pp
     /\ clock' = r.now
     /\ last' = r.res
     /\ UNCHANGED <<calls, employees, payroll_details, time_entries>>

AutoFillSalariedHours(eid, rg) ==
  \E r \in {auto_fill_salaried_hours(time_entries, eid, rg[1], rg[2])} :
     /\ \A x \in r.te : x.time_entry_id <= MaxTimeEntryId
     /\ time_entries' = r.te
     /\ last' = r.res
     /\ UNCHANGED <<calls, employees, payroll_periods, payroll_details, clock>>

TerminateEmployee(eid) ==
  \E r \in {terminate_employee(employees, eid)} :
     /\ employees' = r.emps
     /\ last' = r.res
     /\ UNCHANGED <<calls, payroll_periods, payroll_details, time_entries, clock>>

ReactivateEmployee(eid) ==
  \E r \in {reactivate_employee(employees, eid)} :
     /\ employees' = r.emps
     /\ last' = r.res
     /\ UNCHANGED <<calls, payroll_periods, payroll_details, time_entries, clock>>

(* direct calls of the ledger and of the registry *)
AssignToPayroll(eid, rg, pid) ==
  /\ time_entries' = assign_to_payroll(time_entries, eid, rg[1], rg[2], pid)
  /\ last' = Result("assign_to_payroll", TRUE, "",
                    {AssignCount(time_entries, eid, rg[1], rg[2])})
  /\ UNCHANGED <<calls, employees, payroll_periods, payroll_details, clock>>

GetOrCreatePeriod(rg) ==
  \E r \in {get_or_create(payroll_periods, rg[1], rg[2])} :
     /\ payroll_periods' = r.pp
     /\ last' = Result("get_or_create", TRUE, "", {r.period.payroll_id})
     /\ UNCHANGED <<calls, employees, payroll_details, time_entries, clock>>

LockPeriod(pid, processed_by) ==
  /\ clock < MaxClock
  /\ \E period \in PeriodGetById(payroll_periods, pid) :
       payroll_periods' = lock(payroll_periods, period, processed_by, clock + 1)
  /\ clock' = clock + 1
  /\ last' = Result("lock", TRUE, "", {pid})
  /\ UNCHANGED <<calls, employees, payroll_details, time_entries>>

(* The engine: the operations of the two controllers *)
Next ==
  \/ \E t \in Targets, a \in SubmitArgs : SubmitTimeEntry(t[1], t[2], a)
  \/ \E t \in Targets : DeleteTimeEntry(t[1], t[2])
  \/ \E eid \in EmployeeIds, rg \in Ranges, save_ok \in BOOLEAN :
       CalculateWeeklyPay(eid, rg, save_ok)
  \/ \E rg \in Ranges, active_only \in BOOLEAN, saved \in SUBSET DOMAIN employees :
       CalculateAllPayroll(rg, active_only, saved)
  \/ \E pid \in PeriodIds, approved_by \in Approvers : ApprovePayroll(pid, approved_by)
  \/ \E eid \in DOMAIN employees, rg \in FillRanges : AutoFillSalariedHours(eid, rg)
  \/ \E eid \in StatusTargets : TerminateEmployee(eid)
  \/ \E eid \in StatusTargets : ReactivateEmployee(eid)

Spec == Init /\ [][Next]_vars

(* The Time Entry Ledger alone, its bulk assignment called directly *)
NextLedger ==
  \/ \E t \in LedgerTargets, a \in LedgerArgs : SubmitTimeEntry(t[1], t[2], a)
  \/ \E t \in LedgerTargets : DeleteTimeEntry(t[1], t[2])
  \/ \E eid \in DOMAIN employees, rg \in LedgerFillRanges :
       AutoFillSalariedHours(eid, rg)
  \/ \E eid \in DOMAIN employees, rg \in AssignRanges, pid \in PeriodIds :
       AssignToPayroll(eid, rg, pid)

SpecLedger == Init /\ [][NextLedger]_vars

(* The Pay Period Registry alone, lock() called directly *)
NextRegistry ==
  \/ \E rg \in RegistryRanges : GetOrCreatePeriod(rg)
  \/ \E pid \in RegistryIds, processed_by \in Approvers : LockPeriod(pid, processed_by)
  \/ \E pid \in RegistryIds, approved_by \in Approvers : ApprovePayroll(pid, approved_by)

SpecRegistry == Init /\ [][NextRegistry]_vars

(* the rows stored for an (employee, date) pair *)
EntriesAt(te, eid, d) == {r \in te : r.employee_id = eid /\ r.entry_date = d}

(* The TimeEntry model alone: objects built by the constructor or by       *)
(* create_entry and saved, for dates that have no stored entry             *)
SaveEntry(entry) ==
  \E r \in {TimeEntrySave(time_entries, entry)} :
     /\ EntriesAt(time_entries, entry.employee_id, entry.entry_date) = {}
     /\ \A x \in r.te : x.time_entry_id <= MaxTimeEntryId
     /\ time_entries' = r.te
     /\ last' = Result("save", r.ok, "", TimeEntryIds(r.te \ time_entries))
     /\ UNCHANGED <<calls, employees, payroll_periods, payroll_details, clock>>

CreateEntry(d, h) ==
  \E r \in {TimeEntrySave(time_entries, create_entry("E1", d, h, 0, "n1"))} :
     /\ EntriesAt(time_entries, "E1", d) = {}
     /\ \A x \in r.te : x.time_entry_id <= MaxTimeEntryId
     /\ time_entries' = r.te
     /\ last' = Result("create_entry", r.ok, "", TimeEntryIds(r.te \ time_entries))
     /\ UNCHANGED <<calls, employees, payroll_periods, payroll_details, clock>>

NextEntries ==
  \/ \E entry \in EntryObjects : SaveEntry(entry)
  \/ \E d \in EntryDates, h \in {400, 1000} : CreateEntry(d, h)

SpecEntries == Init /\ [][NextEntries]_vars

(* The Payroll Calculator: calculate_weekly_pay applied to employees whose *)
(* terms and whose week of entries (each built by create_entry and         *)
(* inserted, Monday first) are drawn from the sets above                   *)
EmployeeTerms ==
  {[e \in DOMAIN InitialEmployees |->
      IF e = "E1" THEN [InitialEmployees[e] EXCEPT !.hourly_rate = rate]
      ELSE [InitialEmployees[e] EXCEPT !.base_salary = st[1],
                                       !.medical_type = st[2]]] :
     rate \in HourlyRates, st \in SalaryTerms}

Weeks ==
  {w \in [DOMAIN DayChoices -> UNION {DayChoices[d] : d \in DOMAIN DayChoices}] :
     \A d \in DOMAIN DayChoices : w[d] \in DayChoices[d]}

RECURSIVE EnterWeek(_, _, _)
EnterWeek(te, w, d) ==
  IF d > Len(DayChoices) THEN te
  ELSE EnterWeek(IF w[d] = <<>> THEN te
                 ELSE TimeEntryInsert(te, create_entry("E1", d, w[d][1], w[d][2], "n1")),
                 w, d + 1)

InitCalculator ==
  /\ employees \in EmployeeTerms
  /\ payroll_periods = {}
  /\ payroll_details = {}
  /\ time_entries \in {EnterWeek({}, w, 1) : w \in Weeks}
  /\ clock = 0
  /\ last = Result("init", TRUE, "", {})
  /\ calls = NoCalls

NextCalculator ==
  \E eid \in DOMAIN employees, rg \in Ranges : CalculateWeeklyPay(eid, rg, TRUE)

SpecCalculator == InitCalculator /\ [][NextCalculator]_vars

(* The calculation over incomplete compensation data. The compensation     *)
(* columns are nullable: a loader can store a Salary row without a         *)
(* base_salary or an Hourly row without an hourly_rate, and an employee    *)
(* saved without a salary_type has no compensation row at all, so that     *)
(* every compensation field reads as None. Unset stands for None.          *)
Unset == 0 - 1

CompensationTerms ==
  {[e \in DOMAIN InitialEmployees |-> IF e = "E1" THEN t1 ELSE t2] :
     t1 \in {InitialEmployees["E1"],
             [InitialEmployees["E1"] EXCEPT !.hourly_rate = Unset]},
     t2 \in {InitialEmployees["E2"],
             [InitialEmployees["E2"] EXCEPT !.base_salary = Unset],
             [InitialEmployees["E2"] EXCEPT !.salary_type = "None",
                                            !.base_salary = Unset,
                                            !.hourly_rate = Unset]}}

InitCompensation ==
  /\ employees \in CompensationTerms
  /\ payroll_periods = {}
  /\ payroll_details = {}
  /\ time_entries = {}
  /\ clock = 0
  /\ last = Result("init", TRUE, "", {})
  /\ calls = NoCalls

NextCompensation ==
  \/ \E t \in Targets, a \in SubmitArgs : SubmitTimeEntry(t[1], t[2], a)
  \/ \E eid \in EmployeeIds, rg \in Ranges, save_ok \in BOOLEAN :
       CalculateWeeklyPay(eid, rg, save_ok)

SpecCompensation == InitCompensation /\ [][NextCompensation]_vars

(* The employee status operations, over employees with complete and with   *)
(* incomplete compensation data; submit_time_entry reads the status        *)
NextStatus ==
  \/ \E eid \in EmployeeIds : TerminateEmployee(eid)
  \/ \E eid \in EmployeeIds : ReactivateEmployee(eid)
  \/ \E t \in Targets, a \in SubmitArgs : SubmitTimeEntry(t[1], t[2], a)

SpecStatus == InitCompensation /\ [][NextStatus]_vars

----------------------------------------------------------------------------
(* Concurrent requests: the controller calls statement by statement.       *)
(* The schema's uniqueness constraints make an INSERT of a second row for  *)
(* the same key raise sqlite3.IntegrityError, which _insert catches and    *)
(* turns into False.                                                       *)

(* UNIQUE (period_start_date, period_end_date) of payroll_periods *)
PeriodIsUnique(pp, start_date, end_date) ==
  \A r \in pp : ~(r.period_start_date = start_date /\ r.period_end_date = end_date)

(* UNIQUE (payroll_id, employee_id) of payroll_details *)
DetailIsUnique(pd, pid, eid) ==
  \A r \in pd : ~(r.payroll_id = pid /\ r.employee_id = eid)

(* UNIQUE (employee_id, entry_date) of time_entries *)
EntryIsUnique(te, eid, d) ==
  \A r \in te : ~(r.employee_id = eid /\ r.entry_date = d)

(* PayrollPeriod._insert of get_or_create's new period: the table, the     *)
(* object (payroll_id stays None when the INSERT fails) and save()'s value *)
PeriodInsert(pp, start_date, end_date) ==
  LET new_period ==
        [payroll_id |-> 0, period_start_date |-> start_date,
         period_end_date |-> end_date, processed_date |-> 0,
         is_locked |-> 0, processed_by |-> "None"]
      saved == [new_period EXCEPT !.payroll_id = NewPayrollId(pp)]
  IN IF PeriodIsUnique(pp, start_date, end_date)
     THEN [ok |-> TRUE, pp |-> pp \cup {saved}, period |-> saved]
     ELSE [ok |-> FALSE, pp |-> pp, period |-> new_period]

(* PayrollDetail.save(): _insert for an object without id, else _update,   *)
(* which succeeds when a row has the id                                    *)
DetailSave(pd, detail) ==
  IF detail.payroll_detail_id = 0
  THEN IF DetailIsUnique(pd, detail.payroll_id, detail.employee_id)
       THEN [ok |-> TRUE, pd |-> PayrollDetailSave(pd, detail),
             detail |-> [detail EXCEPT !.payroll_detail_id = NewPayrollDetailId(pd)]]
       ELSE [ok |-> FALSE, pd |-> pd, detail |-> detail]
  ELSE [ok |-> \E r \in pd : r.payroll_detail_id = detail.payroll_detail_id,
        pd |-> PayrollDetailSave(pd, detail), detail |-> detail]

(* TimeEntry.save() of a valid entry *)
EntrySave(te, entry) ==
  IF entry.time_entry_id = 0
  THEN IF EntryIsUnique(te, entry.employee_id, entry.entry_date)
       THEN [ok |-> TRUE, te |-> TimeEntryInsert(te, entry)]
       ELSE [ok |-> FALSE, te |-> te]
  ELSE [ok |-> \E r \in te : r.time_entry_id = entry.time_entry_id,
        te |-> TimeEntryUpdate(te, entry)]

(* lines 335-346 of calculate_weekly_pay: the message of the failed check, *)
(* "" when the compensation data passes                                    *)
CompensationError(emp) ==
  IF emp.salary_type = SALARY_TYPE_SALARY /\ emp.base_salary < 0
  THEN "Salaried employee has no base salary set"
  ELSE IF emp.salary_type = SALARY_TYPE_HOURLY /\ emp.hourly_rate < 0
  THEN "Hourly employee has no hourly rate set"
  ELSE IF emp.salary_type \notin {SALARY_TYPE_SALARY, SALARY_TYPE_HOURLY}
  THEN "Unknown salary type"
  ELSE ""

(* the one element of a set that holds an object *)
The(S) == CHOOSE x \in S : TRUE

(* the order number of the next write of a payroll detail *)
NextWrite == MaxOf({calls[c].wrote : c \in Callers}) + 1

At(c, o, at) == calls[c].op = o /\ calls[c].pc = at

(* calculate_weekly_pay, lines 312-319: the employee lookup and the        *)
(* SELECT of get_or_create                                                 *)
CalcGetByDates(c) ==
  /\ At(c, "calculate_weekly_pay", "start")
  /\ \E period \in {get_by_dates(payroll_periods, calls[c].args[2],
                                 calls[c].args[3])} :
       calls' = [calls EXCEPT ![c] =
                   IF calls[c].args[1] \notin DOMAIN employees
                   THEN Done(calls[c], FALSE, "Employee not found", {})
                   ELSE [calls[c] EXCEPT !.period = period,
                                  !.pc = IF period = {} THEN "insert_period"
                                         ELSE "get_detail"]]
  /\ UNCHANGED <<employees, payroll_periods, payroll_details, time_entries,
                 clock, last>>

(* the INSERT of get_or_create, and lines 322-323 *)
CalcInsertPeriod(c) ==
  /\ At(c, "calculate_weekly_pay", "insert_period")
  /\ \E r \in {PeriodInsert(payroll_periods, calls[c].args[2], calls[c].args[3])} :
       /\ payroll_periods' = r.pp
       /\ calls' = [calls EXCEPT ![c] =
                      IF r.period.payroll_id = 0
                      THEN Done([calls[c] EXCEPT !.period = {r.period}], FALSE,
                                "Failed to get payroll period ID", {})
                      ELSE [calls[c] EXCEPT !.period = {r.period}, !.pc = "get_detail"]]
  /\ UNCHANGED <<employees, payroll_details, time_entries, clock, last>>

(* lines 325-330: the detail lookup and the check of the lock flag of the  *)
(* period object read before                                               *)
CalcGetDetail(c) ==
  /\ At(c, "calculate_weekly_pay", "get_detail")
  /\ \E existing \in {get_by_payroll_and_employee(payroll_details,
                                                  The(calls[c].period).payroll_id,
                                                  calls[c].args[1])} :
       calls' = [calls EXCEPT ![c] =
                   IF AlreadyCalculatedAndLocked(existing, The(calls[c].period))
                   THEN Done([calls[c] EXCEPT !.existing = existing], TRUE,
                             "Payroll already calculated and locked",
                             PayrollDetailIds(existing))
                   ELSE [calls[c] EXCEPT !.existing = existing, !.pc = "get_entries"]]
  /\ UNCHANGED <<employees, payroll_periods, payroll_details, time_entries,
                 clock, last>>

(* lines 332-407: the entries of the week are read and the detail object   *)
(* is computed                                                             *)
CalcGetEntries(c) ==
  /\ At(c, "calculate_weekly_pay", "get_entries")
  /\ \E entries \in {get_by_employee(time_entries, calls[c].args[1],
                                     calls[c].args[2], calls[c].args[3])},
        emp \in {employees[calls[c].args[1]]} :
       calls' = [calls EXCEPT ![c] =
                   IF CompensationError(emp) # ""
                   THEN Done([calls[c] EXCEPT !.entries = entries], FALSE,
                             CompensationError(emp), {})
                   ELSE [calls[c] EXCEPT
                           !.entries = entries,
                           !.detail =
                             {WithComputed(IF calls[c].existing # {} THEN The(calls[c].existing)
                                           ELSE NewDetail(The(calls[c].period).payroll_id,
                                                          calls[c].args[1]),
                                           ComputedDetail(emp, entries))},
                           !.pc = "save_detail"]]
  /\ UNCHANGED <<employees, payroll_periods, payroll_details, time_entries,
                 clock, last>>

(* line 410: detail.save() *)
CalcSaveDetail(c) ==
  /\ At(c, "calculate_weekly_pay", "save_detail")
  /\ \E r \in {DetailSave(payroll_details, The(calls[c].detail))} :
       /\ payroll_details' = r.pd
       /\ calls' = [calls EXCEPT ![c] =
                      IF r.ok
                      THEN [calls[c] EXCEPT !.detail = {r.detail},
                                            !.wrote = NextWrite, !.pc = "assign"]
                      ELSE Done(calls[c], FALSE, "Failed to save payroll detail", {})]
  /\ UNCHANGED <<employees, payroll_periods, time_entries, clock, last>>

(* lines 411-415: the bulk assignment of the week's entries, the return *)
CalcAssign(c) ==
  /\ At(c, "calculate_weekly_pay", "assign")
  /\ time_entries' = assign_to_payroll(time_entries, calls[c].args[1],
                                       calls[c].args[2], calls[c].args[3],
                                       The(calls[c].period).payroll_id)
  /\ calls' = [calls EXCEPT ![c] = Done(calls[c], TRUE, "Payroll calculated",
                                        PayrollDetailIds(calls[c].detail))]
  /\ UNCHANGED <<employees, payroll_periods, payroll_details, clock, last>>

(* submit_time_entry, lines 147-155: the employee checks and the lookup of *)
(* the entry of the date                                                   *)
SubmitGetEntry(c) ==
  /\ At(c, "submit_time_entry", "start")
  /\ \E entry \in {get_by_employee_and_date(time_entries, calls[c].args[1],
                                            calls[c].args[2])} :
       calls' = [calls EXCEPT ![c] =
                   IF calls[c].args[1] \notin DOMAIN employees
                   THEN Done(calls[c], FALSE, "not found", {})
                   ELSE IF employees[calls[c].args[1]].status
                             # EMPLOYEE_STATUS_ACTIVE
                   THEN Done(calls[c], FALSE, "not active", {})
                   ELSE [calls[c] EXCEPT
                           !.entry = entry,
                           !.pc = IF entry # {} /\ The(entry).payroll_id # 0
                                  THEN "get_period" ELSE "save_entry"]]
  /\ UNCHANGED <<employees, payroll_periods, payroll_details, time_entries,
                 clock, last>>

(* lines 159-162: the period of the entry is read and its lock flag checked *)
SubmitGetPeriod(c) ==
  /\ At(c, "submit_time_entry", "get_period")
  /\ \E period \in {PeriodGetById(payroll_periods, The(calls[c].entry).payroll_id)} :
       calls' = [calls EXCEPT ![c] =
                   IF \E p \in period : p.is_locked # 0
                   THEN Done([calls[c] EXCEPT !.period = period], FALSE,
                             "Cannot edit time entry - payroll period is locked", {})
                   ELSE [calls[c] EXCEPT !.period = period, !.pc = "save_entry"]]
  /\ UNCHANGED <<employees, payroll_periods, payroll_details, time_entries,
                 clock, last>>

(* lines 164-192: the fields are set on the entry read before (or a new    *)
(* entry is built), validated and saved                                    *)
SubmitSaveEntry(c) ==
  /\ At(c, "submit_time_entry", "save_entry")
  /\ \E entry \in {IF calls[c].entry # {}
                   THEN [The(calls[c].entry) EXCEPT
                           !.hours_worked = calls[c].args[3],
                           !.pto_hours = calls[c].args[4],
                           !.notes = calls[c].args[5]]
                   ELSE create_entry(calls[c].args[1], calls[c].args[2],
                                     calls[c].args[3], calls[c].args[4],
                                     calls[c].args[5])} :
       IF validate(entry) # {}
       THEN /\ calls' = [calls EXCEPT ![c] =
                           Done(calls[c], FALSE, "Validation failed", {})]
            /\ UNCHANGED time_entries
       ELSE \E r \in {EntrySave(time_entries, entry)} :
              /\ time_entries' = r.te
              /\ calls' = [calls EXCEPT ![c] =
                             IF ~r.ok
                             THEN Done(calls[c], FALSE,
                                       IF entry.time_entry_id # 0
                                       THEN "Failed to update time entry"
                                       ELSE "Failed to create time entry", {})
                             ELSE Done(calls[c], TRUE,
                                       IF entry.time_entry_id # 0
                                       THEN "Time entry updated"
                                       ELSE "Time entry created",
                                       IF entry.time_entry_id # 0
                                       THEN TimeEntryIds({entry})
                                       ELSE TimeEntryIds(r.te \ time_entries))]
  /\ UNCHANGED <<employees, payroll_periods, payroll_details, clock, last>>

(* delete_time_entry, lines 274-276: the lookup of the entry *)
DeleteGetEntry(c) ==
  /\ At(c, "delete_time_entry", "start")
  /\ \E entry \in {get_by_employee_and_date(time_entries, calls[c].args[1],
                                            calls[c].args[2])} :
       calls' = [calls EXCEPT ![c] =
                   IF entry = {}
                   THEN Done(calls[c], FALSE, "No time entry found", {})
                   ELSE [calls[c] EXCEPT
                           !.entry = entry,
                           !.pc = IF The(entry).payroll_id # 0
                                  THEN "get_period" ELSE "delete_entry"]]
  /\ UNCHANGED <<employees, payroll_periods, payroll_details, time_entries,
                 clock, last>>

(* lines 279-282 *)
DeleteGetPeriod(c) ==
  /\ At(c, "delete_time_entry", "get_period")
  /\ \E period \in {PeriodGetById(payroll_periods, The(calls[c].entry).payroll_id)} :
       calls' = [calls EXCEPT ![c] =
                   IF \E p \in period : p.is_locked # 0
                   THEN Done([calls[c] EXCEPT !.period = period], FALSE,
                             "Cannot delete time entry - payroll period is locked", {})
                   ELSE [calls[c] EXCEPT !.period = period, !.pc = "delete_entry"]]
  /\ UNCHANGED <<employees, payroll_periods, payroll_details, time_entries,
                 clock, last>>

(* lines 284-286: entry.delete() *)
DeleteEntry(c) ==
  /\ At(c, "delete_time_entry", "delete_entry")
  /\ time_entries' = TimeEntryDelete(time_entries, The(calls[c].entry))
  /\ calls' = [calls EXCEPT ![c] =
                 IF The(calls[c].entry).time_entry_id \in TimeEntryIds(time_entries)
                 THEN Done(calls[c], TRUE, "Time entry deleted", {})
                 ELSE Done(calls[c], FALSE, "Failed to delete time entry", {})]
  /\ UNCHANGED <<employees, payroll_periods, payroll_details, clock, last>>

(* approve_payroll, lines 480-485: the period is read and checked *)
ApproveGetPeriod(c) ==
  /\ At(c, "approve_payroll", "start")
  /\ \E period \in {PeriodGetById(payroll_periods, calls[c].args[1])} :
       calls' = [calls EXCEPT ![c] =
                   IF period = {}
                   THEN Done(calls[c], FALSE, "Payroll period not found", {})
                   ELSE IF The(period).is_locked # 0
                   THEN Done([calls[c] EXCEPT !.period = period], FALSE,
                             "Payroll period is already locked", {})
                   ELSE [calls[c] EXCEPT !.period = period, !.pc = "lock"]]
  /\ UNCHANGED <<employees, payroll_periods, payroll_details, time_entries,
                 clock, last>>

(* lines 487-489: period.lock(approved_by) writes every column of the      *)
(* period object read before                                               *)
ApproveLock(c) ==
  /\ At(c, "approve_payroll", "lock")
  /\ clock < MaxClock
  /\ payroll_periods' = lock(payroll_periods, The(calls[c].period),
                             calls[c].args[2], clock + 1)
  /\ clock' = clock + 1
  /\ calls' = [calls EXCEPT ![c] =
                 Done(calls[c], TRUE, "Payroll period approved", {})]
  /\ UNCHANGED <<employees, payroll_details, time_entries, last>>

(* The stores the requests arrive at: empty; one time entry of E1; that    *)
(* entry and the week calculated once                                      *)
EnteredStore ==
  [pp |-> {}, pd |-> {},
   te |-> TimeEntryInsert({}, create_entry("E1", 1, 400, 0, "n1"))]

RaceStores ==
  {[pp |-> {}, pd |-> {}, te |-> {}],
   EnteredStore,
   [f \in {"pp", "pd", "te"} |->
      calculate_weekly_pay({}, {}, EnteredStore.te, "E1", 1, 7, TRUE)[f]]}

(* the request each caller sends *)
RaceRequests ==
  << {NewCall("calculate_weekly_pay", <<"E1", 1, 7>>)},
     {NewCall("calculate_weekly_pay", <<"E1", 1, 7>>),
      NewCall("approve_payroll", <<1, "admin1">>)},
     {NewCall("submit_time_entry", <<"E1", 1, 1000, 200, "n2">>),
      NewCall("delete_time_entry", <<"E1", 1>>),
      NewCall("none", <<>>)} >>

InitRace ==
  /\ employees = InitialEmployees
  /\ \E s \in RaceStores :
       /\ payroll_periods = s.pp
       /\ payroll_details = s.pd
       /\ time_entries = s.te
  /\ clock = 0
  /\ last = Result("init", TRUE, "", {})
  /\ calls \in {f \in [Callers -> UNION {RaceRequests[c] : c \in Callers}] :
                  \A c \in Callers : f[c] \in RaceRequests[c]}

NextRace ==
  \/ \E c \in Callers : CalcGetByDates(c)
  \/ \E c \in Callers : CalcInsertPeriod(c)
  \/ \E c \in Callers : CalcGetDetail(c)
  \/ \E c \in Callers : CalcGetEntries(c)
  \/ \E c \in Callers : CalcSaveDetail(c)
  \/ \E c \in Callers : CalcAssign(c)
  \/ \E c \in Callers : SubmitGetEntry(c)
  \/ \E c \in Callers : SubmitGetPeriod(c)
  \/ \E c \in Callers : SubmitSaveEntry(c)
  \/ \E c \in Callers : DeleteGetEntry(c)
  \/ \E c \in Callers : DeleteGetPeriod(c)
  \/ \E c \in Callers : DeleteEntry(c)
  \/ \E c \in Callers : ApproveGetPeriod(c)
  \/ \E c \in Callers : ApproveLock(c)

SpecRace == InitRace /\ [][NextRace]_vars

----------------------------------------------------------------------------
(* Properties *)

IsLocked(p) == p.is_locked # 0

(* the details stored for a period *)
DetailsOf(pd, pid) == {d \in pd : d.payroll_id = pid}

(* the details stored for a (period, employee) pair *)
DetailsFor(pd, pid, eid) == {d \in pd : d.payroll_id = pid /\ d.employee_id = eid}

(* C1: period locking is one-way. Over every step of the engine, a period  *)
(* that is locked is still stored and locked after the step, with the      *)
(* start and end dates it had.                                             *)
C1_LockOneWay ==
  [][\A p \in payroll_periods :
       IsLocked(p) =>
         \E q \in payroll_periods' :
           /\ q.payroll_id = p.payroll_id
           /\ IsLocked(q)
           /\ q.period_start_date = p.period_start_date
           /\ q.period_end_date = p.period_end_date]_vars

(* a calculation has run on a period that was locked before *)
C1_Witness ==
  /\ \E p \in payroll_periods : IsLocked(p)
  /\ last.op \in {"calculate_weekly_pay", "calculate_all_payroll"}
  /\ last.ok

(* C2: after a period is locked its results are frozen. No step creates,   *)
(* overwrites or removes a PayrollDetail of a locked period, also for an    *)
(* employee who had no detail in it.                                        *)
C2_LockedDetailsFrozen ==
  [][\A p \in payroll_periods :
       IsLocked(p) =>
         DetailsOf(payroll_details', p.payroll_id)
           = DetailsOf(payroll_details, p.payroll_id)]_vars

(* C3: calculate_weekly_pay for a locked period and an employee whose      *)
(* detail exists returns success with the stored detail and leaves the     *)
(* details, the time entries and the periods as they were.                 *)
C3_LockedRecalcUnchanged ==
  [][last'.op = "calculate_weekly_pay" =>
     \A eid \in EmployeeIds, rg \in Ranges, save_ok \in BOOLEAN :
       \A p \in get_by_dates(payroll_periods, rg[1], rg[2]) :
         \A stored \in get_by_payroll_and_employee(payroll_details,
                                                   p.payroll_id, eid) :
           (IsLocked(p) /\ CalculateWeeklyPay(eid, rg, save_ok))
           => /\ payroll_details' = payroll_details
              /\ time_entries' = time_entries
              /\ payroll_periods' = payroll_periods
              /\ last'.ok
              /\ last'.ret = {stored.payroll_detail_id}]_vars

(* the short-circuit has answered while an entry of the employee, in the   *)
(* range, was submitted after the calculation and is not assigned          *)
C3_Witness ==
  /\ last.op = "calculate_weekly_pay"
  /\ last.msg = "Payroll already calculated and locked"
  /\ \E d \in payroll_details, r \in time_entries :
       /\ d.payroll_detail_id \in last.ret
       /\ r.employee_id = d.employee_id
       /\ r.payroll_id = 0
       /\ d.employee_id = "E1"
       /\ d.total_hours = 0

(* C4: for a period that is not locked, a calculate_weekly_pay whose save  *)
(* the store accepts, on a pair that has a detail, overwrites the computed *)
(* fields of that record with the values computed from the employee's      *)
(* current time entries and compensation terms; one detail exists for the  *)
(* pair afterwards and no record is inserted.                              *)
C4_UnlockedRecalcOverwrites ==
  [][last'.op = "calculate_weekly_pay" =>
     \A eid \in DOMAIN employees, rg \in Ranges :
       \A p \in get_by_dates(payroll_periods, rg[1], rg[2]) :
         \A stored \in get_by_payroll_and_employee(payroll_details, p.payroll_id, eid) :
           (~IsLocked(p) /\ CalculateWeeklyPay(eid, rg, TRUE))
           => /\ Cardinality(DetailsFor(payroll_details', p.payroll_id, eid)) = 1
              /\ Cardinality(payroll_details') = Cardinality(payroll_details)
              /\ \A d \in DetailsFor(payroll_details', p.payroll_id, eid) :
                   /\ d.payroll_detail_id = stored.payroll_detail_id
                   /\ \A computed \in
                         {ComputedDetail(employees[eid],
                            get_by_employee(time_entries, eid, rg[1], rg[2]))} :
                        \A f \in ComputedFields : d[f] = computed[f]]_vars

(* the detail with id 1 was recalculated, after the detail with id 2 was   *)
(* inserted, and now shows hours that were entered                         *)
C4_Witness ==
  /\ last.op = "calculate_weekly_pay"
  /\ last.ok
  /\ last.ret = {1}
  /\ \E d \in payroll_details : d.payroll_detail_id = 2
  /\ \E d \in payroll_details : d.payroll_detail_id = 1 /\ d.total_hours = 1200
  /\ \A p \in payroll_periods : ~IsLocked(p)

(* the entry carries the id of a stored period whose lock flag is set *)
AssignedToLockedPeriod(pp, r) ==
  \E p \in pp : p.payroll_id = r.payroll_id /\ IsLocked(p)

LockedEditMessage == "Cannot edit time entry - payroll period is locked"
LockedDeleteMessage == "Cannot delete time entry - payroll period is locked"

(* C5, as claimed: submit_time_entry and delete_time_entry on an entry     *)
(* assigned to a locked period both fail with the locked-period error and  *)
(* leave the time entries as they were.                                    *)
C5_LockedEntryLockedError ==
  [][last'.op \in {"submit_time_entry", "delete_time_entry"} =>
     \A t \in Targets :
       \A old \in EntriesAt(time_entries, t[1], t[2]) :
         AssignedToLockedPeriod(payroll_periods, old) =>
           /\ \A a \in SubmitArgs :
                SubmitTimeEntry(t[1], t[2], a) =>
                  /\ time_entries' = time_entries
                  /\ ~last'.ok
                  /\ last'.msg = LockedEditMessage
           /\ DeleteTimeEntry(t[1], t[2]) =>
                /\ time_entries' = time_entries
                /\ ~last'.ok
                /\ last'.msg = LockedDeleteMessage]_vars

(* C5, amended: both calls fail and leave the time entries as they were;   *)
(* delete_time_entry, and submit_time_entry for an employee who is active, *)
(* fail with the locked-period error, submit_time_entry for an employee    *)
(* who is not active fails with the not-active error.                      *)
C5_LockedEntryProtected ==
  [][last'.op \in {"submit_time_entry", "delete_time_entry"} =>
     \A t \in Targets :
       \A old \in EntriesAt(time_entries, t[1], t[2]) :
         AssignedToLockedPeriod(payroll_periods, old) =>
           /\ \A a \in SubmitArgs :
                SubmitTimeEntry(t[1], t[2], a) =>
                  /\ time_entries' = time_entries
                  /\ ~last'.ok
                  /\ last'.msg = IF employees[t[1]].status = EMPLOYEE_STATUS_ACTIVE
                                 THEN LockedEditMessage ELSE "not active"
           /\ DeleteTimeEntry(t[1], t[2]) =>
                /\ time_entries' = time_entries
                /\ ~last'.ok
                /\ last'.msg = LockedDeleteMessage]_vars

(* an edit or a delete was refused on an entry of a locked period *)
C5_Witness ==
  /\ last.msg \in {LockedEditMessage, LockedDeleteMessage}
  /\ \E r \in time_entries : AssignedToLockedPeriod(payroll_periods, r)

(* C6: approve_payroll fails when the period does not exist or is locked,  *)
(* and then leaves the period rows as they were; on an open period it      *)
(* succeeds and sets the lock flag, the processed timestamp (now) and the  *)
(* approver in the one step.                                               *)
C6_ApproveGuarded ==
  [][last'.op = "approve_payroll" =>
     \A pid \in PeriodIds, by \in Approvers :
       ApprovePayroll(pid, by) =>
         LET period == {p \in payroll_periods : p.payroll_id = pid} IN
         IF period = {} \/ \E p \in period : IsLocked(p)
         THEN ~last'.ok /\ payroll_periods' = payroll_periods
         ELSE /\ last'.ok
              /\ clock' # clock
              /\ \A p \in period :
                   /\ p.processed_date = 0
                   /\ p.processed_by = "None"
                   /\ [p EXCEPT !.is_locked = 1, !.processed_date = clock',
                                !.processed_by = by] \in payroll_periods']_vars

(* an approval was refused on a locked period *)
C6_Witness ==
  /\ last.op = "approve_payroll"
  /\ last.msg = "Payroll period is already locked"
  /\ \E p \in payroll_periods : IsLocked(p) /\ p.processed_by = "admin1"

(* C7: lock(processed_by) on a period whose lock flag is set fails and     *)
(* leaves the approver and the processed timestamp of the first lock.      *)
C7_LockRejectsLocked ==
  [][\A pid \in RegistryIds, by \in Approvers :
       \A p \in {q \in payroll_periods : q.payroll_id = pid /\ IsLocked(q)} :
         LockPeriod(pid, by) => (~last'.ok /\ p \in payroll_periods')]_vars

(* C8: at most one time entry per (employee, date); a submit_time_entry    *)
(* repeated with the same arguments for a date that had no entry updates   *)
(* the entry the first call created and leaves exactly one.                *)
C8_OneEntryPerDay ==
  /\ \A r1, r2 \in time_entries :
       (r1.employee_id = r2.employee_id /\ r1.entry_date = r2.entry_date)
       => r1 = r2
  /\ \A t \in LedgerTargets, a \in LedgerArgs :
       LET first == submit_time_entry(payroll_periods, time_entries,
                                      t[1], t[2], a[1], a[2], a[3])
           second == submit_time_entry(payroll_periods, first.te,
                                       t[1], t[2], a[1], a[2], a[3])
       IN (EntriesAt(time_entries, t[1], t[2]) = {} /\ first.res.ok)
          => /\ second.res.ok
             /\ second.res.msg = "Time entry updated"
             /\ second.res.ret = first.res.ret
             /\ second.te = first.te
             /\ Cardinality(EntriesAt(second.te, t[1], t[2])) = 1

(* an entry was updated by a second submit while an auto-filled entry is   *)
(* stored                                                                  *)
C8_Witness ==
  /\ last.msg = "Time entry updated"
  /\ \E r \in time_entries : r.notes = "Auto-filled for salaried employee"
  /\ Cardinality(time_entries) >= 2

(* C9: assign_to_payroll stamps the entries of the employee dated in       *)
(* [start, end] whose payroll_id is NULL and no other: every entry keeps   *)
(* its other fields, an assigned entry keeps its period, entries of other  *)
(* employees or outside the range keep NULL; a second call over the same   *)
(* range assigns zero entries.                                             *)
C9_AssignOnlyUnassigned ==
  [][last'.op = "assign_to_payroll" =>
     \A eid \in DOMAIN employees, rg \in AssignRanges, pid \in PeriodIds :
       AssignToPayroll(eid, rg, pid) =>
         /\ Cardinality(time_entries') = Cardinality(time_entries)
         /\ \A r \in time_entries :
              LET stamped == /\ r.employee_id = eid
                             /\ rg[1] <= r.entry_date /\ r.entry_date <= rg[2]
                             /\ r.payroll_id = 0
              IN [r EXCEPT !.payroll_id = IF stamped THEN pid ELSE r.payroll_id]
                   \in time_entries'
         /\ \A other \in PeriodIds :
              /\ assign_to_payroll(time_entries', eid, rg[1], rg[2], other)
                   = time_entries'
              /\ AssignCount(time_entries', eid, rg[1], rg[2]) = 0]_vars

(* a call assigned nothing while entries stamped with two different        *)
(* periods are stored                                                      *)
C9_Witness ==
  /\ last.op = "assign_to_payroll"
  /\ last.ret = {0}
  /\ \E r1, r2 \in time_entries : r1.payroll_id = 1 /\ r2.payroll_id = 2

(* C10: when the save of the detail fails, calculate_weekly_pay returns a  *)
(* failure and no time entry's period assignment (nor any detail) changes. *)
C10_NoAssignWithoutSave ==
  [][last'.msg = "Failed to save payroll detail" =>
     \A eid \in EmployeeIds, rg \in Ranges :
       CalculateWeeklyPay(eid, rg, FALSE)
       => /\ ~last'.ok
          /\ time_entries' = time_entries
          /\ payroll_details' = payroll_details]_vars

(* a save failed while entries of both employees in the range were not     *)
(* assigned                                                                *)
C10_Witness ==
  /\ last.op = "calculate_weekly_pay"
  /\ last.msg = "Failed to save payroll detail"
  /\ \A eid \in DOMAIN employees :
       \E r \in time_entries : r.employee_id = eid /\ r.payroll_id = 0

(* the employees a batch run selects *)
Selected(active_only) ==
  {get_all(~active_only)[i] : i \in 1..Len(get_all(~active_only))}

(* C11: calculate_all_payroll attempts every employee of the selected set. *)
(* In every reachable state, whatever range and selection it is called     *)
(* with and whatever subset of the employees has its save accepted, the    *)
(* batch returns success, and each selected employee whose own save is     *)
(* accepted has a detail in the period afterwards that is among the        *)
(* returned results and, unless the period is locked, holds the values     *)
(* computed from that employee's entries and terms: no failure of another  *)
(* employee prevents it.                                                   *)
C11_BatchContinues ==
  \A rg \in Ranges, active_only \in BOOLEAN, saved \in SUBSET DOMAIN employees :
    \A r \in {calculate_all_payroll(payroll_periods, payroll_details,
                                    time_entries, rg[1], rg[2], active_only,
                                    saved)} :
      /\ r.res.ok
      /\ \A eid \in Selected(active_only) \cap saved :
           \E p \in get_by_dates(r.pp, rg[1], rg[2]) :
             \E d \in DetailsFor(r.pd, p.payroll_id, eid) :
               /\ d.payroll_detail_id \in r.res.ret
               /\ ~IsLocked(p) =>
                    \A computed \in
                       {ComputedDetail(employees[eid],
                          get_by_employee(time_entries, eid, rg[1], rg[2]))} :
                      \A f \in ComputedFields : d[f] = computed[f]

(* a batch has reported errors: the first employee of the run has no       *)
(* detail, the second one has a detail that was returned                   *)
C11_Witness ==
  /\ last.op = "calculate_all_payroll"
  /\ last.msg = "Calculated with errors"
  /\ Len(get_all(FALSE)) = 2
  /\ \A d \in payroll_details : d.employee_id # get_all(FALSE)[1]
  /\ \E d \in payroll_details :
       /\ d.employee_id = get_all(FALSE)[2]
       /\ d.payroll_detail_id \in last.ret

(* the per-employee failures a returned tuple carries: calculate_all_payroll *)
(* returns (True, message, results), the errors list is not among them      *)
ReturnedFailures(res) == IF "errors" \in DOMAIN res THEN res.errors ELSE {}

(* the employees whose detail is in the returned results *)
ReturnedSuccesses(pd, res) ==
  {d.employee_id : d \in {x \in pd : x.payroll_detail_id \in res.ret}}

(* C12: the result of calculate_all_payroll holds the computed details and *)
(* the per-employee failures. In every reachable state, for every call,    *)
(* each employee of the selected set is either the employee of a returned  *)
(* detail or named by a returned failure, and not both.                    *)
C12_BothListsReturned ==
  \A rg \in Ranges, active_only \in BOOLEAN, saved \in SUBSET DOMAIN employees :
    \A r \in {calculate_all_payroll(payroll_periods, payroll_details,
                                    time_entries, rg[1], rg[2], active_only,
                                    saved)} :
      \A eid \in Selected(active_only) :
        (eid \in ReturnedSuccesses(r.pd, r.res))
          # (eid \in {f[1] : f \in ReturnedFailures(r.res)})

(* C13: auto_fill_salaried_hours fills gaps only. Over every auto-fill     *)
(* step of the ledger, every stored entry is still stored unchanged; every *)
(* entry the step adds belongs to the salaried employee it was called for, *)
(* has 8 hours worked and no PTO, a date in [start, end] that is a Monday  *)
(* to Friday and had no entry of that employee before; so a call for an    *)
(* hourly employee adds nothing; and the same call applied to the          *)
(* resulting store adds nothing.                                           *)
C13_AutoFillOnlyGaps ==
  [][last'.op = "auto_fill_salaried_hours" =>
     \A eid \in DOMAIN employees, rg \in LedgerFillRanges :
       AutoFillSalariedHours(eid, rg)
       => /\ time_entries \subseteq time_entries'
          /\ \A r \in time_entries' \ time_entries :
               /\ r.employee_id = eid
               /\ employees[eid].salary_type = SALARY_TYPE_SALARY
               /\ r.hours_worked = 800
               /\ r.pto_hours = 0
               /\ rg[1] <= r.entry_date
               /\ r.entry_date <= rg[2]
               /\ get_day_of_week(r.entry_date)
                    \in {"Monday", "Tuesday", "Wednesday", "Thursday", "Friday"}
               /\ EntriesAt(time_entries, eid, r.entry_date) = {}
          /\ auto_fill_salaried_hours(time_entries', eid, rg[1], rg[2]).te
               = time_entries']_vars

(* an auto-fill has added the one weekday entry of a range that holds a    *)
(* weekend day, next to an entry of the employee that was submitted before *)
(* and still shows its 4 hours                                             *)
C13_Witness ==
  /\ last.op = "auto_fill_salaried_hours"
  /\ last.ok
  /\ last.ret = {2}
  /\ \E r \in time_entries :
       /\ r.time_entry_id = 1 /\ r.employee_id = "E2" /\ r.hours_worked = 400
  /\ \E r \in time_entries :
       /\ r.time_entry_id = 2 /\ r.employee_id = "E2" /\ r.hours_worked = 800
       /\ r.entry_date \in {5, 8}

(* the bounds of the hours of an entry, in hundredths of an hour *)
HoursInBounds(h, p) == h >= 0 /\ p >= 0 /\ p <= 800 /\ h + p <= 2400

(* C14: only valid hours are stored. In every reachable state each stored  *)
(* time entry has hours worked >= 0, 0 <= PTO hours <= 8 and a total of at *)
(* most 24, and a submit_time_entry with hours outside these bounds, for   *)
(* any target, fails and leaves the store as it is, the entry stored for   *)
(* that date included.                                                     *)
C14_OnlyValidHoursStored ==
  /\ \A r \in time_entries : HoursInBounds(r.hours_worked, r.pto_hours)
  /\ \A t \in Targets, a \in SubmitArgs \cup RejectedArgs :
       ~HoursInBounds(a[1], a[2]) =>
         \A r \in {submit_time_entry(payroll_periods, time_entries, t[1], t[2],
                                     a[1], a[2], a[3])} :
           /\ ~r.res.ok
           /\ r.te = time_entries

(* a submit was rejected by validation while every target had an entry:    *)
(* the rejected hours were meant for an entry that is stored               *)
C14_Witness ==
  /\ last.op = "submit_time_entry"
  /\ last.msg = "Validation failed"
  /\ \A t \in Targets : EntriesAt(time_entries, t[1], t[2]) # {}

(* C15: the weekend flag is set exactly for Saturday entries. In every     *)
(* reachable state of the TimeEntry model, each stored entry (it passed    *)
(* validate() in save()) has is_saturday = 1 exactly when its day of week  *)
(* is Saturday, and every entry create_entry builds has it so.             *)
C15_FlagIffSaturday ==
  /\ \A r \in time_entries : (r.is_saturday = 1) <=> (r.day_of_week = "Saturday")
  /\ \A d \in 1..14 :
       \A e \in {create_entry("E1", d, 400, 0, "n1")} :
         (e.is_saturday = 1) <=> (e.day_of_week = "Saturday")

(* C16: every stored pay period is a Monday-to-Sunday window. In every     *)
(* reachable state of the registry, whatever dates get_or_create was       *)
(* called with, each stored period starts on a Monday and ends 6 days      *)
(* after its start.                                                        *)
C16_MondayToSunday ==
  \A p \in payroll_periods :
    /\ get_day_of_week(p.period_start_date) = "Monday"
    /\ p.period_end_date = p.period_start_date + 6

(* what the entry of an employee on a date counts for: its hours worked,   *)
(* its PTO hours, its hours worked when it is weekend-flagged, when it is  *)
(* not, and the excess of a non-weekend entry over 8 hours                 *)
DayHours(eid, d, kind) ==
  IF EntriesAt(time_entries, eid, d) = {} THEN 0
  ELSE LET r == CHOOSE x \in EntriesAt(time_entries, eid, d) : TRUE IN
       CASE kind = "worked" -> r.hours_worked
         [] kind = "pto" -> r.pto_hours
         [] kind = "weekend" -> IF r.is_saturday = 1 THEN r.hours_worked ELSE 0
         [] kind = "weekday" -> IF r.is_saturday = 1 THEN 0 ELSE r.hours_worked
         [] kind = "excess" -> IF r.is_saturday # 1 /\ r.hours_worked > 800
                               THEN r.hours_worked - 800 ELSE 0

RECURSIVE WeekSum(_, _, _, _)
WeekSum(eid, d, end_date, kind) ==
  IF d > end_date THEN 0
  ELSE DayHours(eid, d, kind) + WeekSum(eid, d + 1, end_date, kind)

(* the details computed for hourly employees *)
HourlyDetails ==
  {d \in payroll_details :
     employees[d.employee_id].salary_type = SALARY_TYPE_HOURLY}

(* the period of a detail *)
PeriodOf(d) == CHOOSE p \in payroll_periods : p.payroll_id = d.payroll_id

(* C17: overtime is a daily rule. For every stored entry the regular hours *)
(* are min(hours worked, 8) and the overtime hours max(0, hours worked -   *)
(* 8), which add up to the hours worked; and the overtime hours of every   *)
(* hourly detail are the sum, over the dates of its period, of the excess  *)
(* over 8 hours of the employee's non-weekend entry of that date.          *)
C17_DailyOvertime ==
  /\ \A r \in time_entries :
       /\ regular_hours(r) = IF r.hours_worked < 800 THEN r.hours_worked ELSE 800
       /\ overtime_hours(r) = IF r.hours_worked > 800 THEN r.hours_worked - 800 ELSE 0
       /\ regular_hours(r) + overtime_hours(r) = r.hours_worked
  /\ \A d \in HourlyDetails :
       d.overtime_hours = WeekSum(d.employee_id, PeriodOf(d).period_start_date,
                                  PeriodOf(d).period_end_date, "excess")

(* a detail of four 10-hour weekdays: the week totals 40 hours, 8 of them  *)
(* overtime                                                                *)
C17_Witness ==
  \E d \in HourlyDetails :
    /\ d.total_hours = 4000
    /\ d.overtime_hours = 800
    /\ d.regular_hours = 3200
    /\ Cardinality(get_by_employee(time_entries, d.employee_id, 1, 7)) = 4

(* C18: weekend hours have their own bucket. For every hourly detail the   *)
(* weekend hours are the hours worked of the weekend-flagged entries of    *)
(* the period, regular plus overtime hours are the hours worked of the     *)
(* other entries, the PTO hours are the PTO hours of all entries; so the   *)
(* three buckets add up to the hours worked and the total to hours worked  *)
(* plus PTO.                                                               *)
C18_WeekendBucket ==
  \A d \in HourlyDetails :
    \A rg \in {<<PeriodOf(d).period_start_date, PeriodOf(d).period_end_date>>} :
      /\ d.saturday_hours = WeekSum(d.employee_id, rg[1], rg[2], "weekend")
      /\ d.regular_hours + d.overtime_hours
           = WeekSum(d.employee_id, rg[1], rg[2], "weekday")
      /\ d.pto_hours = WeekSum(d.employee_id, rg[1], rg[2], "pto")
      /\ d.regular_hours + d.overtime_hours + d.saturday_hours
           = WeekSum(d.employee_id, rg[1], rg[2], "worked")
      /\ d.total_hours = WeekSum(d.employee_id, rg[1], rg[2], "worked")
                          + WeekSum(d.employee_id, rg[1], rg[2], "pto")

(* a detail of a 10-hour Saturday next to a weekday with overtime and a    *)
(* day with PTO: the 10 hours are all weekend hours                        *)
C18_Witness ==
  \E d \in HourlyDetails :
    /\ d.saturday_hours = 1000
    /\ d.overtime_hours = 160
    /\ d.pto_hours = 250
    /\ d.total_hours = 960 + 425 + 250 + 1000

(* C19: gross pay is the sum of its stored parts. Every stored detail has  *)
(* gross_pay = base_pay + overtime_pay + saturday_pay + dependent_stipend, *)
(* in cents.                                                               *)
C19_GrossIsSumOfParts ==
  \A d \in payroll_details :
    d.gross_pay = d.base_pay + d.overtime_pay + d.saturday_pay + d.dependent_stipend

(* C20: taxable income and net pay. Every stored detail has taxable_income *)
(* = gross_pay - medical_deduction, and net_pay = taxable_income -         *)
(* total_employee_taxes rounded to cents, a half cent away from zero.      *)
C20_NetPayHalfUp ==
  \A d \in payroll_details :
    /\ d.taxable_income = d.gross_pay - d.medical_deduction
    /\ \A x \in {100 * d.taxable_income - d.total_employee_taxes} :
         d.net_pay = IF x >= 0 THEN (x + 50) \div 100
                     ELSE 0 - ((50 - x) \div 100)

(* amount (ten-thousandths of a dollar) is rate / Scale times the taxable  *)
(* income (cents) rounded to 4 decimals: no ten-thousandth is nearer       *)
IsRateOf(amount, taxable_income, rate) ==
  Abs(100 * amount - taxable_income * rate) <= 50

(* C21: taxes are derived from taxable income. Every stored detail has     *)
(* taxable income = gross pay - medical deduction; its state, federal,     *)
(* social security and medicare amounts are 3.15%, 7.65%, 6.2% and 1.45%   *)
(* of the taxable income rounded to 4 decimals, the three employer amounts *)
(* 7.65%, 6.2% and 1.45% of it; each total is the sum of its amounts.      *)
C21_TaxesOnTaxableIncome ==
  \A d \in payroll_details :
    /\ d.taxable_income = d.gross_pay - d.medical_deduction
    /\ IsRateOf(d.state_tax, d.taxable_income, 315)
    /\ IsRateOf(d.federal_tax_employee, d.taxable_income, 765)
    /\ IsRateOf(d.social_security_employee, d.taxable_income, 620)
    /\ IsRateOf(d.medicare_employee, d.taxable_income, 145)
    /\ IsRateOf(d.federal_tax_employer, d.taxable_income, 765)
    /\ IsRateOf(d.social_security_employer, d.taxable_income, 620)
    /\ IsRateOf(d.medicare_employer, d.taxable_income, 145)
    /\ d.total_employee_taxes = d.state_tax + d.federal_tax_employee
                                + d.social_security_employee + d.medicare_employee
    /\ d.total_employer_taxes = d.federal_tax_employer + d.social_security_employer
                                + d.medicare_employer

(* the detail of a 78,000 salary with the single deduction: 1500.00 gross, *)
(* 1450.00 taxable, 267.5250 employee and 221.8500 employer taxes          *)
C21_Witness ==
  \E d \in payroll_details :
    /\ d.gross_pay = 150000
    /\ d.taxable_income = 145000
    /\ d.state_tax = 456750
    /\ d.total_employee_taxes = 2675250
    /\ d.total_employer_taxes = 2218500

(* the currency fields of a detail *)
CurrencyFields ==
  {"base_pay", "overtime_pay", "saturday_pay", "dependent_stipend", "gross_pay",
   "taxable_income", "state_tax", "federal_tax_employee",
   "social_security_employee", "medicare_employee", "total_employee_taxes",
   "federal_tax_employer", "social_security_employer", "medicare_employer",
   "total_employer_taxes", "net_pay"}

(* C22: no currency field of a stored detail is negative: base, overtime   *)
(* and weekend pay, dependent stipend, gross pay, taxable income, every    *)
(* tax amount and tax total, and net pay are all at least zero.            *)
C22_NonNegativeCurrency ==
  \A d \in payroll_details : \A f \in CurrencyFields : d[f] >= 0

(* the hour and pay fields of a detail *)
HourAndPayFields ==
  {"regular_hours", "overtime_hours", "saturday_hours", "pto_hours",
   "total_hours", "base_pay", "overtime_pay", "saturday_pay"}

SalariedIds ==
  {e \in DOMAIN employees : employees[e].salary_type = SALARY_TYPE_SALARY}

(* C23: the pay of a salaried employee does not depend on the time         *)
(* entries. Every stored detail of a salaried employee has 40 regular      *)
(* hours, no overtime, weekend or PTO hours, and base pay = annual salary  *)
(* / 52 rounded to cents, with no overtime or weekend pay; and what the    *)
(* calculation makes of the entries now stored for the employee has the    *)
(* same hour and pay fields as what it makes of no entries at all.         *)
C23_SalariedIgnoresEntries ==
  /\ \A d \in payroll_details :
       d.employee_id \in SalariedIds =>
         /\ d.regular_hours = 4000 /\ d.total_hours = 4000
         /\ d.overtime_hours = 0 /\ d.saturday_hours = 0 /\ d.pto_hours = 0
         /\ 2 * Abs(52 * d.base_pay - employees[d.employee_id].base_salary) <= 52
         /\ d.overtime_pay = 0 /\ d.saturday_pay = 0
  /\ \A e \in SalariedIds : \A rg \in Ranges :
       \A f \in HourAndPayFields :
         ComputedDetail(employees[e], get_by_employee(time_entries, e, rg[1], rg[2]))[f]
           = ComputedDetail(employees[e], {})[f]

(* a detail of the salaried employee stored while a 10-hour day with 2 PTO *)
(* hours is on record for the period                                       *)
C23_Witness ==
  \E d \in payroll_details :
    /\ d.employee_id \in SalariedIds
    /\ \E r \in get_by_employee(time_entries, d.employee_id, 1, 7) :
         r.hours_worked = 1000 /\ r.pto_hours = 200 /\ r.payroll_id = d.payroll_id

(* the failures of calculate_weekly_pay that reject the employee data *)
RejectionMessages ==
  {"Employee not found", "Salaried employee has no base salary set",
   "Hourly employee has no hourly rate set", "Unknown salary type"}

(* C24: a calculation rejected for its employee data writes nothing. A     *)
(* calculate_weekly_pay call that fails because the employee is unknown,   *)
(* the pay type is neither Salary nor Hourly, or the salary or rate of the *)
(* pay type is unset leaves the pay periods, the details and the time      *)
(* entries as they were.                                                   *)
C24_RejectedBeforeAnyWrite ==
  [][(/\ last'.op = "calculate_weekly_pay"
      /\ ~last'.ok
      /\ last'.msg \in RejectionMessages)
     => UNCHANGED <<payroll_periods, payroll_details, time_entries>>]_vars

(* the employees with the status of employee eid set to status *)
WithStatus(eid, status) == [employees EXCEPT ![eid].status = status]

HasStatus(eid, status) ==
  eid \in DOMAIN employees /\ employees[eid].status = status

(* C25: employee status goes Active -> Terminated by terminate and         *)
(* Terminated -> Active by reactivate. A terminate that succeeds was       *)
(* called on an existing active employee and leaves exactly that employee  *)
(* Terminated; a reactivate that succeeds was called on an existing        *)
(* terminated employee and leaves exactly that employee Active; a call     *)
(* that fails changes no employee; and a call for an unknown employee or   *)
(* for one already in the target state fails.                              *)
C25_StatusTransitions ==
  [][\A eid \in EmployeeIds :
       /\ TerminateEmployee(eid) =>
            /\ last'.ok => /\ HasStatus(eid, "Active")
                           /\ employees' = WithStatus(eid, "Terminated")
            /\ ~last'.ok => employees' = employees
            /\ ~HasStatus(eid, "Active") => ~last'.ok
       /\ ReactivateEmployee(eid) =>
            /\ last'.ok => /\ HasStatus(eid, "Terminated")
                           /\ employees' = WithStatus(eid, "Active")
            /\ ~last'.ok => employees' = employees
            /\ ~HasStatus(eid, "Terminated") => ~last'.ok]_vars

(* an employee reactivated after a termination while the other employee    *)
(* is terminated                                                           *)
C25_Witness ==
  /\ last.op = "reactivate_employee" /\ last.ok
  /\ HasStatus("E1", "Active")
  /\ HasStatus("E2", "Terminated")

(* C30: an approved paycheck matches the time records. For every locked    *)
(* period and every hourly employee with a detail in it, the regular,      *)
(* overtime, weekend and PTO hours of the detail are the bucketed sums     *)
(* over the time entries the employee now has on the dates of the period.  *)
C30_LockedDetailMatchesEntries ==
  \A p \in payroll_periods :
    IsLocked(p) =>
      \A d \in DetailsOf(payroll_details, p.payroll_id) \cap HourlyDetails :
        \A rg \in {<<p.period_start_date, p.period_end_date>>} :
          /\ d.overtime_hours = WeekSum(d.employee_id, rg[1], rg[2], "excess")
          /\ d.regular_hours + d.overtime_hours
               = WeekSum(d.employee_id, rg[1], rg[2], "weekday")
          /\ d.saturday_hours = WeekSum(d.employee_id, rg[1], rg[2], "weekend")
          /\ d.pto_hours = WeekSum(d.employee_id, rg[1], rg[2], "pto")

(* the callers whose request is a calculation, and the period rows and the *)
(* details a calculation request is about                                  *)
CalcCallers == {c \in Callers : calls[c].op = "calculate_weekly_pay"}

PeriodRowsOf(c) ==
  {r \in payroll_periods : /\ r.period_start_date = calls[c].args[2]
                           /\ r.period_end_date = calls[c].args[3]}

DetailRowsOf(c) ==
  {d \in payroll_details : /\ d.employee_id = calls[c].args[1]
                           /\ \E r \in PeriodRowsOf(c) : d.payroll_id = r.payroll_id}

(* C26: when two calculations for the same employee and the same unlocked  *)
(* period have both returned, each having got the period, both succeeded,  *)
(* exactly one detail exists for the pair, and it holds the values of the  *)
(* call that wrote last; also when no detail existed before.               *)
C26_LastWriterWins ==
  \A c1 \in CalcCallers, c2 \in CalcCallers :
    (/\ c1 # c2
     /\ calls[c1].args = calls[c2].args
     /\ calls[c1].pc = "done" /\ calls[c2].pc = "done"
     /\ calls[c1].wrote <= calls[c2].wrote
     /\ \A c \in {c1, c2} : \E r \in calls[c].period : r.payroll_id # 0
     /\ \A r \in PeriodRowsOf(c1) : ~IsLocked(r))
    => /\ calls[c1].res.ok /\ calls[c2].res.ok
       /\ Cardinality(DetailRowsOf(c1)) = 1
       /\ DetailRowsOf(c1) = calls[c2].detail

(* C27: when two calculations for the same range have both passed          *)
(* get_or_create, exactly one period row exists for the range, both hold   *)
(* that row's id, and neither has failed for want of a period id.          *)
C27_OnePeriodForBoth ==
  \A c1 \in CalcCallers, c2 \in CalcCallers :
    (/\ c1 # c2
     /\ calls[c1].args = calls[c2].args
     /\ calls[c1].pc \notin {"start", "insert_period"}
     /\ calls[c2].pc \notin {"start", "insert_period"})
    => /\ Cardinality(PeriodRowsOf(c1)) = 1
       /\ \A c \in {c1, c2} :
            /\ \E r \in PeriodRowsOf(c1) : The(calls[c].period).payroll_id = r.payroll_id
            /\ calls[c].res.msg # "Failed to get payroll period ID"

(* C28: once a period is locked, no step writes or deletes a detail of     *)
(* that period or a time entry assigned to it.                             *)
C28_NoWriteAfterLock ==
  [][\A p \in payroll_periods :
       IsLocked(p) =>
         /\ {d \in payroll_details' : d.payroll_id = p.payroll_id}
              = {d \in payroll_details : d.payroll_id = p.payroll_id}
         /\ {r \in time_entries' : r.payroll_id = p.payroll_id}
              = {r \in time_entries : r.payroll_id = p.payroll_id}]_vars

(* C29: a time entry assigned to a period stays assigned to it for as long *)
(* as it is stored, whatever update a submit writes.                       *)
C29_AssignmentKept ==
  [][\A r \in time_entries :
       r.payroll_id # 0 =>
         \A r2 \in time_entries' :
           r2.time_entry_id = r.time_entry_id => r2.payroll_id = r.payroll_id]_vars

====
